---- MODULE Spec2Model ----
(***************************************************************************)
(* A model of DocWorkflowManager (src/docs/DocWorkflowManager.ts): the     *)
(* directive parser, the processWorkflow state machine, the four directive *)
(* handlers and the download history ("ledger").                           *)
(*                                                                         *)
(* Strings are TLA+ strings; a character is a string of length one,        *)
(* obtained with SubSeq.                                                   *)
(***************************************************************************)
EXTENDS FiniteSets, Integers, Sequences, TLC

VARIABLES
    planParts,        \* ghost: the segments the lines of the plan were composed of
    planFile,         \* docs/implementation_plan.md on disk
    parsed,           \* outcome of the last direct parseImplementationPlan() call
    parseCalls,       \* number of direct parseImplementationPlan() calls made
    downloadHistory,  \* DocWorkflowManager.downloadHistory
    inflight,         \* handler calls awaiting their I/O
    issued,           \* number of handler calls issued so far (numbers the calls)
    callerDownloads,  \* number of processDownload calls made by callers directly
    wfPc,             \* where the processWorkflow run is
    directives,       \* the run's parsed directives
    wfIdx,            \* position of the run's loop in directives
    wfResult,         \* what processWorkflow returned: "none", "true", "false"
    wfError,          \* message of the error the run's catch block received
    calls,            \* ghost: the handler invocations of the run, in order
    outcomes,         \* ghost: what those invocations returned, in order
    fallbackCalls,    \* ghost: invocations of runFallbackFlow in the run
    runs,             \* number of processWorkflow runs started
    answered,         \* ghost: fetch attempts since the last clear that got an HTTP response
    answered200,      \* ghost: fetch attempts since the last clear that got a 200 response
    fsOps,            \* the file system writes processUnzip has requested, in order
    tree,             \* the 'documentation' directory on disk
    lastReturn,       \* ghost: the handler call that returned last, and what it returned
    unzipCheck,       \* ghost: what the last processUnzip call found in the history
    appended,         \* ghost: the records processDownload pushed since the last clear
    pushed,           \* ghost: the records callers pushed onto returned arrays since then
    latestBy,         \* ghost: who wrote a record last: "none", "download", "caller"
    callerUnzips,     \* number of processUnzip calls made by callers directly
    callerValidates,  \* number of processValidate calls made by callers directly
    callerPushes,     \* number of recorded pushes onto returned arrays
    observing,        \* whether the ghosts above record this behaviour's handler calls
    globPattern,      \* the pattern matchesPattern is called with
    globPath,         \* the path matchesPattern is called with
    globResult,       \* what matchesPattern returned: "none", "true", "false"
    scripts,          \* the files that exist on disk below docs/scripts
    spawned,          \* the child processes processImplement started, in order
    directiveCalls,   \* number of processDirective calls made by callers directly
    exitCode,         \* what the standalone entry point exited with: "none", "0", "1"
    toolCalls,        \* number of CallTool requests the server has received
    toolRequest,      \* the CallTool request the server received last
    toolResponse,     \* the text the server answered its last request with
    baseTree,         \* the directory on disk that the basePath of requests names
    pathPlan,         \* the plan file on disk that the planPath of requests names
    zip               \* the ZipFile of the processUnzip call being followed entry by entry

parseVars == <<planParts, planFile, parsed, parseCalls>>
wfVars == <<wfPc, directives, wfIdx, wfResult, wfError, calls, outcomes, fallbackCalls, runs>>
ledgerVars == <<downloadHistory, inflight, issued, callerDownloads, answered, answered200>>
fsVars == <<fsOps, tree>>
ghostVars == <<lastReturn, unzipCheck, appended, pushed, latestBy>>
callerVars == <<callerUnzips, callerValidates, callerPushes, observing>>
globVars == <<globPattern, globPath, globResult>>
implVars == <<scripts, spawned>>
hostVars == <<directiveCalls, exitCode>>
serverVars == <<toolCalls, toolRequest, toolResponse, baseTree, pathPlan>>
zipVars == <<zip>>
vars == <<planParts, planFile, parsed, parseCalls, downloadHistory, inflight, issued,
          callerDownloads, wfPc, directives, wfIdx, wfResult, wfError, calls, outcomes, fallbackCalls,
          runs, answered, answered200, fsOps, tree, lastReturn, unzipCheck, appended, pushed,
          latestBy, callerUnzips, callerValidates, callerPushes, observing, globPattern,
          globPath, globResult, scripts, spawned, directiveCalls, exitCode, toolCalls,
          toolRequest, toolResponse, baseTree, pathPlan, zip>>

(***************************************************************************)
(* Bounds                                                                  *)
(***************************************************************************)
MaxParseLines == 3
MaxParseCalls == 2
MaxPlanLines == 3
MaxRuns == 1
MaxCallerDownloads == 2
MaxCallerValidates == 2
MaxCallerUnzips == 1
MaxCallerPushes == 1
MaxCallerImplements == 2
MaxDirectiveCalls == 2
MaxToolCalls == 2

(***************************************************************************)
(* Characters and the JavaScript string operations the code uses           *)
(***************************************************************************)
\* s.substring(from - 1, to), clipped to the string as JavaScript clips it
Mid(s, from, to) ==
    IF from > Len(s) \/ to < from THEN ""
    ELSE SubSeq(s, from, IF to > Len(s) THEN Len(s) ELSE to)

Ch(s, i) == Mid(s, i, i)

\* \d
DigitChars == {"0", "1", "2", "3", "4", "5", "6", "7", "8", "9"}

UpperCase == <<"A", "B", "C", "D", "E", "F", "G", "H", "I", "J", "K", "L", "M",
               "N", "O", "P", "Q", "R", "S", "T", "U", "V", "W", "X", "Y", "Z">>

LowerCase == <<"a", "b", "c", "d", "e", "f", "g", "h", "i", "j", "k", "l", "m",
               "n", "o", "p", "q", "r", "s", "t", "u", "v", "w", "x", "y", "z">>

\* [a-zA-Z]
LetterChars == {UpperCase[i] : i \in 1..26} \cup {LowerCase[i] : i \in 1..26}

\* \s, and the characters String.prototype.trim removes
SpaceChars == {" ", "\t", "\r", "\n"}

\* the characters the regular expression's "." does not match
LineTerminators == {"\n", "\r"}

\* String.prototype.toLowerCase on one character
LowerChar(c) ==
    IF \E i \in 1..26 : UpperCase[i] = c
    THEN LowerCase[CHOOSE i \in 1..26 : UpperCase[i] = c]
    ELSE c

RECURSIVE ToLowerCase(_)
ToLowerCase(s) ==
    IF Len(s) = 0 THEN ""
    ELSE LowerChar(Ch(s, 1)) \o ToLowerCase(SubSeq(s, 2, Len(s)))

\* String.prototype.trim
RECURSIVE TrimStart(_)
TrimStart(s) ==
    IF Len(s) > 0 /\ Ch(s, 1) \in SpaceChars
    THEN TrimStart(SubSeq(s, 2, Len(s)))
    ELSE s

RECURSIVE TrimEnd(_)
TrimEnd(s) ==
    IF Len(s) > 0 /\ Ch(s, Len(s)) \in SpaceChars
    THEN TrimEnd(SubSeq(s, 1, Len(s) - 1))
    ELSE s

Trim(s) == TrimEnd(TrimStart(s))

\* String.prototype.includes
Includes(s, sub) ==
    \E i \in 1..(Len(s) - Len(sub) + 1) : SubSeq(s, i, i + Len(sub) - 1) = sub

\* content.split('\n'): the pieces between consecutive "\n", in order; always
\* at least one piece
SplitLines(s) ==
    LET breaks == {i \in 1..Len(s) : Ch(s, i) = "\n"}
        \* position of the k-th "\n"; 0 before the first, Len(s) + 1 after the last
        At(k)  == IF k = 0 THEN 0
                  ELSE IF k > Cardinality(breaks) THEN Len(s) + 1
                  ELSE CHOOSE i \in breaks : Cardinality({j \in breaks : j < i}) = k - 1
    IN  [k \in 1..(Cardinality(breaks) + 1) |-> Mid(s, At(k - 1) + 1, At(k) - 1)]

(***************************************************************************)
(* The list-item regular expression                                        *)
(*     /^\d+\.\s+\*\*([a-zA-Z]+)\*\*\s+(.+)$/                              *)
(***************************************************************************)
\* length of the longest run of characters of class cls in s starting at i
RECURSIVE RunLen(_, _, _)
RunLen(cls, s, i) ==
    IF i <= Len(s) /\ Ch(s, i) \in cls THEN 1 + RunLen(cls, s, i + 1) ELSE 0

AllIn(cls, s) == \A i \in 1..Len(s) : Ch(s, i) \in cls

NoneIn(cls, s) == \A i \in 1..Len(s) : Ch(s, i) \notin cls

MaxOf(S) == CHOOSE m \in S : \A k \in S : k <= m

NoMatch == [matched |-> FALSE]

\* line.match(listItemRegex): the two capture groups, or NoMatch.  The
\* greedy runs \d+, the first \s+ and [a-zA-Z]+ are each followed by a
\* literal outside their class, so only their longest run can match; the
\* second \s+ is followed by (.+)$, which also matches blanks, so the match
\* is the one with the longest \s+ that leaves a non-empty, terminator-free
\* rest.
ListItemRegex(line) ==
    LET d    == RunLen(DigitChars, line, 1)
        w    == RunLen(SpaceChars, line, d + 2)
        b1   == d + 2 + w
        v    == RunLen(LetterChars, line, b1 + 2)
        b2   == b1 + 2 + v
        rest == Mid(line, b2 + 2, Len(line))
        cuts == {j \in 1..(Len(rest) - 1) :
                    /\ AllIn(SpaceChars, SubSeq(rest, 1, j))
                    /\ NoneIn(LineTerminators, SubSeq(rest, j + 1, Len(rest)))}
    IN  IF /\ d >= 1
           /\ Ch(line, d + 1) = "."
           /\ w >= 1
           /\ Mid(line, b1, b1 + 1) = "**"
           /\ v >= 1
           /\ Mid(line, b2, b2 + 1) = "**"
           /\ cuts # {}
        THEN [matched |-> TRUE,
              type    |-> SubSeq(line, b1 + 2, b2 - 1),
              target  |-> SubSeq(rest, MaxOf(cuts) + 1, Len(rest))]
        ELSE NoMatch

\* ['download', 'unzip', 'validate', 'implement']
DirectiveTypes == {"download", "unzip", "validate", "implement"}

\* a faulty variant of NewDirectives: the array outlives the call
KeptDirectives(previous) == previous

\* const directives: Directive[] = []
NewDirectives(previous) == <<>>

\* a faulty variant of Push: unshift instead of push
PushFront(list, d) == <<d>> \o list

\* directives.push({...})
Push(list, d) == Append(list, d)

\* a faulty variant of DirectiveType: the verb compared as written
DirectiveTypeAsWritten(type) == type

\* const directiveType = type.toLowerCase()
DirectiveType(type) == ToLowerCase(type)

\* the body of the loop over the lines
ParseLine(list, line) ==
    LET match == ListItemRegex(line)
    IN  IF match.matched /\ DirectiveType(match.type) \in DirectiveTypes
        THEN Push(list, [type   |-> DirectiveType(match.type),
                         target |-> Trim(match.target),
                         raw    |-> Trim(line)])
        ELSE list

RECURSIVE ParseLines(_, _)
ParseLines(list, lines) ==
    IF lines = <<>> THEN list
    ELSE ParseLines(ParseLine(list, Head(lines)), Tail(lines))

\* parseImplementationPlan once readFile has returned content
ParseContent(previous, content) ==
    ParseLines(NewDirectives(previous), SplitLines(content))

(***************************************************************************)
(* The plan document and fs.readFile                                       *)
(***************************************************************************)
PlanWith(content) == [present |-> TRUE, readable |-> TRUE, content |-> content]

PlanAbsent == [present |-> FALSE, readable |-> FALSE, content |-> ""]

PlanUnreadable == [present |-> TRUE, readable |-> FALSE, content |-> ""]

\* await fs.readFile(this.implementationPlanPath, 'utf-8'): the content, or
\* the message of the error it rejects with
ReadFile(file) ==
    IF ~file.present
    THEN [ok |-> FALSE, content |-> "", message |-> "ENOENT: no such file or directory"]
    ELSE IF ~file.readable
    THEN [ok |-> FALSE, content |-> "", message |-> "EACCES: permission denied"]
    ELSE [ok |-> TRUE, content |-> file.content, message |-> ""]

\* parseImplementationPlan: the directives it returns, or the error it throws
ParseImplementationPlan(previous, file) ==
    LET read == ReadFile(file)
    IN  IF read.ok
        THEN [threw |-> FALSE, directives |-> ParseContent(previous, read.content),
              message |-> ""]
        ELSE [threw |-> TRUE, directives |-> <<>>, message |-> read.message]

NotParsed == [threw |-> FALSE, directives |-> <<>>, message |-> ""]

(***************************************************************************)
(* processDownload                                                         *)
(***************************************************************************)
\* what axios.get(url, ...) settles with
HttpResponse(status, contentType, body) ==
    [received |-> TRUE, status |-> status, contentType |-> contentType,
     body |-> body, code |-> ""]

\* no response received: connection failure, or the 30 s timeout
NoResponse(code) ==
    [received |-> FALSE, status |-> 0, contentType |-> "", body |-> "", code |-> code]

ExpiredBody == "{\"message\":\"URL Expired\",\"instructions\":\"contact support\"}"

OtherJsonBody == "{\"message\":\"ok\"}"

LowerExpiredBody == "{\"message\":\"this url expired yesterday\"}"

NoMessageBody == "{\"status\":\"ok\"}"

InvalidJsonBody == "invalid json"

Responses ==
    { HttpResponse(200, "application/zip", "PK-archive"),
      HttpResponse(200, "application/json", ExpiredBody),
      HttpResponse(200, "application/json; charset=utf-8", OtherJsonBody),
      HttpResponse(404, "text/html", "Not Found"),
      NoResponse("ECONNREFUSED"),
      NoResponse("ECONNABORTED") }

\* a faulty variant of ValidateStatus: every status accepted
ValidateAnyStatus(status) == TRUE

\* validateStatus: (status) => status === 200
ValidateStatus(status) == status = 200

\* whether the awaited axios.get resolves (otherwise it rejects)
AxiosResolves(response) == response.received /\ ValidateStatus(response.status)

\* JSON.parse(data.toString('utf-8')) of the bodies above
JsonParse(body) ==
    IF body = ExpiredBody
    THEN [ok |-> TRUE, message |-> "URL Expired", instructions |-> "contact support"]
    ELSE IF body = OtherJsonBody
    THEN [ok |-> TRUE, message |-> "ok", instructions |-> ""]
    ELSE IF body = LowerExpiredBody
    THEN [ok |-> TRUE, message |-> "this url expired yesterday", instructions |-> ""]
    ELSE IF body = NoMessageBody
    THEN [ok |-> TRUE, message |-> "", instructions |-> ""]
    ELSE [ok |-> FALSE, message |-> "", instructions |-> ""]

\* a faulty variant of IsExpiryResponse: no expiry message is recognised
NeverExpired(response) == FALSE

\* a faulty variant of IsExpiryResponse: the content type is not looked at
IsExpiryBody(response) ==
    /\ JsonParse(response.body).ok
    /\ Includes(ToLowerCase(JsonParse(response.body).message), "url expired")

\* the JSON branch: a parseable body whose message contains 'url expired'
IsExpiryResponse(response) ==
    /\ Includes(response.contentType, "application/json")
    /\ JsonParse(response.body).ok
    /\ Includes(ToLowerCase(JsonParse(response.body).message), "url expired")

\* a faulty variant of DownloadResult: every record carries a note
DownloadResultWithNote(url, data, contentType, isExpired, expiryInstructions) ==
    [url |-> url, data |-> data, contentType |-> contentType,
     isExpired |-> isExpired, expiryInstructions |-> "request a new URL"]

\* the object literals pushed onto downloadHistory; expiryInstructions is ""
\* where the property is absent or undefined
DownloadResult(url, data, contentType, isExpired, expiryInstructions) ==
    [url |-> url, data |-> data, contentType |-> contentType,
     isExpired |-> isExpired, expiryInstructions |-> expiryInstructions]

\* data: null
NullData == "null"

\* error.response.statusText of the statuses above
StatusText(status) ==
    CASE status = 404 -> "Not Found"
      [] status = 500 -> "Internal Server Error"
      [] status = 204 -> "No Content"
      [] OTHER        -> ""

\* the last message the catch block of processDownload writes to console.error
DownloadFailedMessage(response) ==
    IF response.received
    THEN "Download failed with status " \o ToString(response.status) \o ": "
             \o StatusText(response.status)
    ELSE IF response.code = "ECONNABORTED"
    THEN "Download timed out after 30 seconds"
    ELSE "Download failed: No response received from server"

UrlExpiredMessage == "URL has expired. Aborting processing."

\* processDownload from the point where axios.get has settled: the records it
\* pushes, the boolean it returns and its last console.error message
ProcessDownloadSettled(url, response) ==
    IF ~AxiosResolves(response)
    THEN [push |-> <<>>, returns |-> "false", error |-> DownloadFailedMessage(response)]
    ELSE IF IsExpiryResponse(response)
    THEN [push |-> <<DownloadResult(url, NullData, response.contentType, TRUE,
                                    JsonParse(response.body).instructions)>>,
          returns |-> "false", error |-> UrlExpiredMessage]
    ELSE [push |-> <<DownloadResult(url, response.body, response.contentType, FALSE, "")>>,
          returns |-> "true", error |-> ""]

(***************************************************************************)
(* getDownloadHistory, clearDownloadHistory and the caller's array         *)
(***************************************************************************)
\* a faulty variant of GetDownloadHistory: return this.downloadHistory
GetDownloadHistoryLive(history) == [live |-> TRUE, items |-> history]

\* return [...this.downloadHistory]: an array with the elements of the
\* history, which is not the history's own array ("live")
GetDownloadHistory(history) == [live |-> FALSE, items |-> history]

\* a faulty variant of ClearedHistory: the array is left as it is
KeptHistory == downloadHistory

\* this.downloadHistory = []
ClearedHistory == <<>>

\* the history after a caller changed the array getDownloadHistory returned
\* into `items`
AfterCallerWrote(history, returned, items) == IF returned.live THEN items ELSE history

(***************************************************************************)
(* processUnzip                                                            *)
(***************************************************************************)
\* a faulty variant of LatestDownload: the first download
EarliestDownload(downloads) == downloads[1]

\* const latestDownload = downloadHistory[downloadHistory.length - 1]
LatestDownload(downloads) == downloads[Len(downloads)]

\* the three checks processUnzip makes before it touches the file system:
\* "ok", or the check that failed
UnzipPrecondition(history) ==
    LET downloads == GetDownloadHistory(history).items
        latest    == LatestDownload(downloads)
    IN  IF Len(downloads) = 0 THEN "no downloads"
        ELSE IF latest.data = NullData THEN "no data"
        ELSE IF /\ ~Includes(latest.contentType, "zip")
                /\ ~Includes(latest.contentType, "octet-stream")
        THEN "not a zip"
        ELSE "ok"

\* the console.error message of the check that failed, "" when all passed
UnzipMessage(history) ==
    LET downloads == GetDownloadHistory(history).items
        check     == UnzipPrecondition(history)
    IN  CASE check = "no downloads" -> "No downloads available to unzip"
          [] check = "no data"      -> "No data available in latest download"
          [] check = "not a zip"    ->
                 "Content type " \o LatestDownload(downloads).contentType
                     \o " is not a zip file"
          [] OTHER                  -> ""

\* const destination = targetPath || 'documentation'
Destination(targetPath) == IF targetPath = "" THEN "documentation" ELSE targetPath

FsOp(op, path, data) == [op |-> op, path |-> path, data |-> data]

\* a faulty variant of UnzipWrites: the destination is made before the checks
MkdirFirst(history, targetPath, mkdirOk) ==
    <<[op |-> "mkdir", path |-> targetPath, data |-> ""]>>

\* the writes processUnzip requests before the extraction starts: fs.mkdir of
\* the destination and, when that succeeded, fs.writeFile of the latest
\* download's data to temp_download.zip; none when a check failed.  (What the
\* extraction writes depends on the archive's entries, which are not modelled.)
UnzipWrites(history, targetPath, mkdirOk) ==
    LET downloads == GetDownloadHistory(history).items
    IN  IF UnzipPrecondition(history) # "ok" THEN <<>>
        ELSE IF ~mkdirOk THEN <<FsOp("mkdir", Destination(targetPath), "")>>
        ELSE <<FsOp("mkdir", Destination(targetPath), ""),
               FsOp("writeFile", Destination(targetPath) \o "/temp_download.zip",
                    LatestDownload(downloads).data)>>

\* how an extraction whose checks passed can end: resolve(true), resolve(false)
\* or return false from the catch block, or the returned promise rejecting
\* (it is returned without await, so the try block does not catch it)
UnzipOutcomes == {"true", "false", "threw"}

\* message of the error a rejected extraction promise carries
UnzipErrorMessage == "readEntry() called without lazyEntries:true"

(***************************************************************************)
(* The extraction of processUnzip                                          *)
(***************************************************************************)
\* the entries of the archives downloaded, in the order of their central
\* directory: directories end with '/'
ArchiveEntries(data) ==
    IF data = "PK-archive" THEN <<"docs/", "docs/guide.md", "README.md">>
    ELSE IF data = "PK-flat" THEN <<"README.md">>
    ELSE <<>>

\* whether yauzl finds the end of central directory record in data
IsArchive(data) == data \in {"PK-archive", "PK-flat", "PK-empty"}

\* openZip(tempZipPath): no options are passed, so yauzl takes its defaults
OpenOptions == [autoClose |-> TRUE, lazyEntries |-> FALSE]

\* yauzl.open: the ZipFile the callback receives, or the error
YauzlOpen(data, options) ==
    [opened |-> IsArchive(data), lazyEntries |-> options.lazyEntries,
     entries |-> ArchiveEntries(data)]

\* zipfile.readEntry() throws unless the ZipFile was opened with lazyEntries
ReadEntryThrows(zipfile) == ~zipfile.lazyEntries

\* the 'entry' handler for each entry: fs.mkdir for a directory, a write stream
\* for a file; then the 'end' handler's fs.unlink of the temporary file
EntryWrites(zipfile, destination) ==
    [i \in 1..Len(zipfile.entries) |->
        IF Ch(zipfile.entries[i], Len(zipfile.entries[i])) = "/"
        THEN FsOp("mkdir", destination \o "/" \o zipfile.entries[i], "")
        ELSE FsOp("createWriteStream", destination \o "/" \o zipfile.entries[i], "")]
    \o <<FsOp("unlink", destination \o "/temp_download.zip", "")>>

\* processUnzip from openZip on, data being what temp_download.zip holds: how
\* the call ends, its last console.error message (or the message of the error
\* it throws) and the writes it makes, every one of them succeeding.  The
\* executor of the returned promise calls zipfile.readEntry() first; when that
\* throws no handler is attached, and the promise, returned without await,
\* rejects outside the try block.
Extraction(data, destination) ==
    LET zipfile == YauzlOpen(data, OpenOptions)
    IN  IF ~zipfile.opened
        THEN [outcome |-> "false",
              error |-> "Unzip failed: Error: end of central directory record signature not found",
              writes |-> <<>>]
        ELSE IF ReadEntryThrows(zipfile)
        THEN [outcome |-> "threw", error |-> UnzipErrorMessage, writes |-> <<>>]
        ELSE [outcome |-> "true", error |-> "", writes |-> EntryWrites(zipfile, destination)]

(***************************************************************************)
(* matchesPattern                                                          *)
(***************************************************************************)
\* s.replace(/from/g, to) for a literal `from`: every occurrence, left to
\* right, none overlapping another
RECURSIVE ReplaceFrom(_, _, _, _)
ReplaceFrom(s, i, from, to) ==
    IF i > Len(s) THEN ""
    ELSE IF Mid(s, i, i + Len(from) - 1) = from
    THEN to \o ReplaceFrom(s, i + Len(from), from, to)
    ELSE Ch(s, i) \o ReplaceFrom(s, i + 1, from, to)

ReplaceAll(s, from, to) == ReplaceFrom(s, 1, from, to)

\* .replace(/\*\*/g, '.*')
ReplaceDoubleStars(s) == ReplaceAll(s, "**", ".*")

\* .replace(/\*/g, '[^\\/]*')
ReplaceStars(s) == ReplaceAll(s, "*", "[^\\/]*")

\* .replace(/\?/g, '[^\\/]')
ReplaceQuestionMarks(s) == ReplaceAll(s, "?", "[^\\/]")

\* a faulty variant of EscapeDots: the dots left as they are
KeepDots(s) == s

\* .replace(/\./g, '\\.')
EscapeDots(s) == ReplaceAll(s, ".", "\\.")

\* const regexPattern = pattern.replace(...).replace(...).replace(...).replace(...)
RegexPattern(pattern) ==
    EscapeDots(ReplaceQuestionMarks(ReplaceStars(ReplaceDoubleStars(pattern))))

\* The regular expressions RegexPattern produces from patterns of letters,
\* '/', '.', '*' and '?' are sequences of atoms, each possibly followed by
\* '*': an escaped character, the class [^\/], '.', or a plain character.
NotSlashClass == "[^\\/]"

AtomAt(r, i) ==
    IF Ch(r, i) = "\\"
    THEN [kind |-> "char", ch |-> Ch(r, i + 1), len |-> 2]
    ELSE IF Mid(r, i, i + Len(NotSlashClass) - 1) = NotSlashClass
    THEN [kind |-> "notSlash", ch |-> "", len |-> Len(NotSlashClass)]
    ELSE IF Ch(r, i) = "."
    THEN [kind |-> "any", ch |-> "", len |-> 1]
    ELSE [kind |-> "char", ch |-> Ch(r, i), len |-> 1]

RECURSIVE RegexAtoms(_, _)
RegexAtoms(r, i) ==
    IF i > Len(r) THEN <<>>
    ELSE LET a    == AtomAt(r, i)
             star == Ch(r, i + a.len) = "*"
         IN  <<[kind |-> a.kind, ch |-> a.ch, star |-> star]>>
                 \o RegexAtoms(r, i + a.len + (IF star THEN 1 ELSE 0))

\* whether the atom accepts the character c
AtomAccepts(a, c) ==
    CASE a.kind = "char"     -> c = a.ch
      [] a.kind = "notSlash" -> c # "/"
      [] OTHER               -> c \notin LineTerminators

\* the positions of s the match can be at after the atom, from a position in S
AfterAtom(a, s, S) ==
    IF a.star
    THEN {j \in 1..(Len(s) + 1) :
            \E i \in S : i <= j /\ \A k \in i..(j - 1) : AtomAccepts(a, Ch(s, k))}
    ELSE {i + 1 : i \in {k \in S : k <= Len(s) /\ AtomAccepts(a, Ch(s, k))}}

RECURSIVE AfterAtoms(_, _, _)
AfterAtoms(atoms, s, S) ==
    IF atoms = <<>> THEN S
    ELSE AfterAtoms(Tail(atoms), s, AfterAtom(Head(atoms), s, S))

\* new RegExp(`^${regexPattern}$`).test(filePath)
RegexTest(regexPattern, filePath) ==
    (Len(filePath) + 1) \in AfterAtoms(RegexAtoms(regexPattern, 1), filePath, {1})

MatchesPattern(filePath, pattern) == RegexTest(RegexPattern(pattern), filePath)

(***************************************************************************)
(* glob and processValidate                                                *)
(***************************************************************************)
\* The 'documentation' directory: whether it exists, whether fs.readdir can
\* read it, and the entries below it, each with the root-relative path of its
\* directory ("" for the root), its name, its kind as its Dirent tells it
\* ("file", "dir", or "symlink" for what is neither) and, for a directory,
\* whether fs.readdir can read it.
DirEntry(dir, name, kind, readable) ==
    [dir |-> dir, name |-> name, kind |-> kind, readable |-> readable]

File(dir, name) == DirEntry(dir, name, "file", TRUE)

Dir(dir, name) == DirEntry(dir, name, "dir", TRUE)

TreeOf(entries) == [exists |-> TRUE, readable |-> TRUE, entries |-> entries]

NoTree == [exists |-> FALSE, readable |-> FALSE, entries |-> {}]

\* path.relative(basePath, path.join(dir, entry.name))
RelativePath(e) == IF e.dir = "" THEN e.name ELSE e.dir \o "/" \o e.name

\* traverse(dir): the matching paths pushed onto files, or the fs.readdir of
\* dir or of a directory below it rejecting
RECURSIVE Traverse(_, _, _, _)
Traverse(t, dir, readable, pattern) ==
    LET entries == {e \in t.entries : e.dir = dir}
        below   == {Traverse(t, RelativePath(e), e.readable, pattern) :
                       e \in {d \in entries : d.kind = "dir"}}
    IN  [threw |-> ~readable \/ \E b \in below : b.threw,
         files |-> {RelativePath(e) :
                       e \in {f \in entries :
                                /\ f.kind # "dir"
                                /\ MatchesPattern(RelativePath(f), pattern)}}
                   \cup UNION {b.files : b \in below}]

\* this.glob(pattern, 'documentation')
Glob(t, pattern) == Traverse(t, "", t.readable, pattern)

ReadDirErrorMessage == "Error: EACCES: permission denied, scandir"

\* processValidate: the boolean it returns and its console.error message
ProcessValidate(t, pattern) ==
    IF ~t.exists
    THEN [returns |-> "false",
          error |-> "Documentation directory 'documentation' does not exist"]
    ELSE IF Glob(t, pattern).threw
    THEN [returns |-> "false", error |-> "Validation failed: " \o ReadDirErrorMessage]
    ELSE IF Cardinality(Glob(t, pattern).files) = 0
    THEN [returns |-> "false", error |-> "No files found matching pattern: " \o pattern]
    ELSE [returns |-> "true", error |-> ""]

(***************************************************************************)
(* processImplement                                                        *)
(***************************************************************************)
\* path.join('docs', 'scripts', `${script}.js`) of a bare script name
ScriptPath(script) == "docs/scripts/" \o script \o ".js"

\* `node ${scriptPath}`
Command(script) == "node " \o ScriptPath(script)

\* child_process.exec keeps at most maxBuffer bytes of each output stream
MaxBuffer == 1048576

\* how a child process ended: its exit code ("null" when a signal ended it),
\* the signal, the bytes it wrote to standard output and its standard error
Child(code, signal, stdoutBytes, stderr) ==
    [code |-> code, signal |-> signal, stdoutBytes |-> stdoutBytes, stderr |-> stderr]

\* a faulty variant of ExecResolves: the exit code is not looked at
ExecAlwaysResolves(child) == TRUE

\* whether the promisified exec resolves (otherwise it rejects): the child
\* exited with code 0, no signal ended it, and no stream outgrew maxBuffer
ExecResolves(child) ==
    /\ child.code = "0"
    /\ child.signal = ""
    /\ child.stdoutBytes <= MaxBuffer
    /\ Len(child.stderr) <= MaxBuffer

\* execError.code and execError.message of a rejected exec
ExecErrorCode(child) ==
    IF child.stdoutBytes > MaxBuffer \/ Len(child.stderr) > MaxBuffer
    THEN "ERR_CHILD_PROCESS_STDIO_MAXBUFFER"
    ELSE child.code

ExecErrorMessage(script, child) ==
    IF child.stdoutBytes > MaxBuffer THEN "stdout maxBuffer length exceeded"
    ELSE IF Len(child.stderr) > MaxBuffer THEN "stderr maxBuffer length exceeded"
    ELSE "Command failed: " \o Command(script) \o "\n" \o child.stderr

\* a faulty variant of ScriptExists: fs.access never rejects
ScriptAlwaysExists(existing, script) == TRUE

\* await fs.access(scriptPath) does not reject
ScriptExists(existing, script) == ScriptPath(script) \in existing

\* processImplement: the boolean it returns, its last console.error message
\* and the commands it had exec run; child is how the command ends if run
ProcessImplement(existing, script, child) ==
    IF ~ScriptExists(existing, script)
    THEN [returns |-> "false", error |-> "Script file not found: " \o ScriptPath(script),
          commands |-> <<>>]
    ELSE IF ExecResolves(child)
    THEN [returns |-> "true",
          error |-> IF child.stderr # "" THEN "Script errors:\n" \o child.stderr ELSE "",
          commands |-> <<Command(script)>>]
    ELSE [returns |-> "false",
          error |-> IF child.stderr # "" THEN "Script errors:\n" \o child.stderr
                    ELSE "Script execution failed with exit code " \o ExecErrorCode(child)
                             \o ": " \o ExecErrorMessage(script, child),
          commands |-> <<Command(script)>>]

(***************************************************************************)
(* processDirective                                                        *)
(***************************************************************************)
\* a faulty variant of HandlerFor: the default case downloads
HandlerOrDownload(type) ==
    IF type \in {"unzip", "validate", "implement"}
    THEN "process" \o (IF type = "unzip" THEN "Unzip"
                       ELSE IF type = "validate" THEN "Validate" ELSE "Implement")
    ELSE "processDownload"

\* a faulty variant of HandlerFor: validate and implement exchanged
HandlerExchanged(type) ==
    CASE type = "download"  -> "processDownload"
      [] type = "unzip"     -> "processUnzip"
      [] type = "validate"  -> "processImplement"
      [] type = "implement" -> "processValidate"
      [] OTHER              -> "none"

\* the switch on directive.type: the handler called, "none" in the default case
HandlerFor(type) ==
    CASE type = "download"  -> "processDownload"
      [] type = "unzip"     -> "processUnzip"
      [] type = "validate"  -> "processValidate"
      [] type = "implement" -> "processImplement"
      [] OTHER              -> "none"

(***************************************************************************)
(* processWorkflow: what the run does next, as a function of what it has   *)
(* just learnt                                                             *)
(***************************************************************************)
WfAt(pc, idx, result, error) == [pc |-> pc, idx |-> idx, result |-> result, error |-> error]

\* a faulty variant of CatchRunsFallback: the fallback for every error
CatchAlwaysRunsFallback(message) == TRUE

\* error instanceof Error && error.message.includes('ENOENT')
CatchRunsFallback(message) == Includes(message, "ENOENT")

\* the catch block
Caught(message, idx) ==
    IF CatchRunsFallback(message)
    THEN WfAt("Fallback", idx, "none", message)
    ELSE WfAt("Failed", idx, "false", message)

\* after `await this.parseImplementationPlan()`, r what it returned or threw
AfterParse(r) ==
    IF r.threw THEN Caught(r.message, 0)
    ELSE IF Len(r.directives) = 0 THEN WfAt("Fallback", 0, "none", "")
    ELSE WfAt("Running", 1, "none", "")

\* a faulty variant of StopsOn: the loop goes on after a failure
StopsOnNothing(outcome) == FALSE

\* if (!success)
StopsOn(outcome) == outcome # "true"

\* a faulty variant of NextIndex: the loop stays on the same directive
SameIndex(idx) == idx

\* the for...of loop moving to the next directive
NextIndex(idx) == idx + 1

\* a faulty variant of ReturnAfterLoop
ReturnFalseAfterLoop == "false"

\* return true, after the loop
ReturnAfterLoop == "true"

\* a faulty variant of AfterDirective: a failed directive runs the fallback
AfterDirectiveFallsBack(outcome, message, idx, n) ==
    IF outcome # "true" THEN WfAt("Fallback", idx, "none", message)
    ELSE IF idx < n THEN WfAt("Running", NextIndex(idx), "none", "")
    ELSE WfAt("Succeeded", idx, "true", "")

\* after `await this.processDirective(directive)` for the idx-th of n
\* directives: outcome is what it returned, or "threw" with a message
AfterDirective(outcome, message, idx, n) ==
    IF outcome = "threw" THEN Caught(message, idx)
    ELSE IF StopsOn(outcome) THEN WfAt("Failed", idx, "false", "")
    ELSE IF idx < n THEN WfAt("Running", NextIndex(idx), "none", "")
    ELSE WfAt(IF ReturnAfterLoop = "true" THEN "Succeeded" ELSE "Failed", idx,
              ReturnAfterLoop, "")

\* a faulty variant of RunFallbackFlowResult
RunFallbackFlowFails == "false"

\* runFallbackFlow: return true
RunFallbackFlowResult == "true"

(***************************************************************************)
(* Plan texts.  A line is composed of five segments                        *)
(*     number gap1 verb gap2 target                                        *)
(* each drawn from a small set; every segment carries, beside its text,    *)
(* what the list-item grammar "<N>. **<verb>** <target>" says of it.       *)
(***************************************************************************)
NumberSegs ==
    { [text |-> "1.",  ok |-> TRUE],  [text |-> "12.", ok |-> TRUE],
      [text |-> "1",   ok |-> FALSE], [text |-> "-",   ok |-> FALSE],
      [text |-> "",    ok |-> FALSE], [text |-> " 1.", ok |-> FALSE],
      [text |-> "1)",  ok |-> FALSE] }

GapSegs ==
    { [text |-> " ",  ok |-> TRUE], [text |-> "",   ok |-> FALSE],
      [text |-> "\t", ok |-> TRUE], [text |-> "  ", ok |-> TRUE] }

VerbSegs ==
    { [text |-> "**download**",  bold |-> TRUE,  verb |-> "download"],
      [text |-> "**Download**",  bold |-> TRUE,  verb |-> "download"],
      [text |-> "**UNZIP**",     bold |-> TRUE,  verb |-> "unzip"],
      [text |-> "**vaLidate**",  bold |-> TRUE,  verb |-> "validate"],
      [text |-> "**implement**", bold |-> TRUE,  verb |-> "implement"],
      [text |-> "**unknown**",   bold |-> TRUE,  verb |-> "unknown"],
      [text |-> "**fetch**",     bold |-> TRUE,  verb |-> "fetch"],
      [text |-> "**downloads**", bold |-> TRUE,  verb |-> "downloads"],
      [text |-> "**down1oad**",  bold |-> FALSE, verb |-> ""],
      [text |-> "*download*",    bold |-> FALSE, verb |-> ""],
      [text |-> "download",      bold |-> FALSE, verb |-> ""],
      [text |-> "** unzip**",    bold |-> FALSE, verb |-> ""],
      [text |-> "****",          bold |-> FALSE, verb |-> ""] }

TargetSegs ==
    { [text |-> "x",                 ok |-> TRUE,  trimmed |-> "x"],
      [text |-> "a b",               ok |-> TRUE,  trimmed |-> "a b"],
      [text |-> "x ",                ok |-> TRUE,  trimmed |-> "x"],
      [text |-> " ",                 ok |-> TRUE,  trimmed |-> ""],
      [text |-> "**/*.md",           ok |-> TRUE,  trimmed |-> "**/*.md"],
      [text |-> "https://x/doc.zip", ok |-> TRUE,  trimmed |-> "https://x/doc.zip"],
      [text |-> "",                  ok |-> FALSE, trimmed |-> ""],
      [text |-> "x\r",               ok |-> FALSE, trimmed |-> "x"] }

Seg(number, gap1, verb, gap2, target) ==
    [number |-> number, gap1 |-> gap1, verb |-> verb, gap2 |-> gap2, target |-> target]

\* every combination of the segments
AllParts ==
    { Seg(n, g1, v, g2, t) :
        n \in NumberSegs, g1 \in GapSegs, v \in VerbSegs, g2 \in GapSegs, t \in TargetSegs }

\* a line that is no list item at all
TextLine(text) ==
    Seg([text |-> "", ok |-> FALSE], [text |-> "", ok |-> FALSE],
        [text |-> text, bold |-> FALSE, verb |-> ""],
        [text |-> "", ok |-> FALSE], [text |-> "", ok |-> FALSE, trimmed |-> ""])

\* a well-formed list item "<number> **<verb>** <target>"
ItemLine(number, verbText, verb, target) ==
    Seg([text |-> number, ok |-> TRUE], [text |-> " ", ok |-> TRUE],
        [text |-> verbText, bold |-> TRUE, verb |-> verb],
        [text |-> " ", ok |-> TRUE], [text |-> target, ok |-> TRUE, trimmed |-> target])

\* the lines the plans of several lines are made of
SomeParts ==
    { TextLine("# Implementation plan"),
      TextLine(""),
      ItemLine("1.", "**download**", "download", "https://x/doc.zip"),
      ItemLine("2.", "**unzip**", "unzip", "out"),
      ItemLine("3.", "**Validate**", "validate", "**/*.md"),
      ItemLine("4.", "**implement**", "implement", "setup"),
      ItemLine("2.", "**unknown**", "unknown", "some command"),
      ItemLine("1.", "**unzip**", "unzip", "https://x/doc.zip") }

LineOf(p) == p.number.text \o p.gap1.text \o p.verb.text \o p.gap2.text \o p.target.text

RECURSIVE JoinLines(_)
JoinLines(lines) ==
    IF lines = <<>> THEN ""
    ELSE IF Len(lines) = 1 THEN lines[1]
    ELSE lines[1] \o "\n" \o JoinLines(Tail(lines))

TextOf(parts) == JoinLines([i \in 1..Len(parts) |-> LineOf(parts[i])])

SeqsUpTo(S, n) == UNION {[1..k -> S] : k \in 0..n}

ParsePlans == {<<p>> : p \in AllParts} \cup SeqsUpTo(SomeParts, MaxParseLines)

\* the lines the plans of the workflow runs are made of
WorkflowParts ==
    { TextLine("# Implementation plan"),
      ItemLine("1.", "**download**", "download", "https://x/doc.zip"),
      ItemLine("2.", "**unzip**", "unzip", "out"),
      ItemLine("3.", "**Validate**", "validate", "**/*.md"),
      ItemLine("4.", "**implement**", "implement", "setup"),
      ItemLine("2.", "**unknown**", "unknown", "some command") }

WorkflowPlans == SeqsUpTo(WorkflowParts, MaxPlanLines)

\* the urls callers pass to processDownload
CallerUrls == {"https://y/a.zip"}

\* the record the tests push onto the array getDownloadHistory returned
PushedRecord ==
    DownloadResult("https://example.com/file.zip", "test", "application/zip", FALSE, "")

\* documentation directories
EmptyTree == TreeOf({})

DocsTree ==
    TreeOf({File("", "guide.md"), File("", "notes.txt"), Dir("", "docs"),
            File("docs", "api.md"), Dir("docs", "sub"), File("docs/sub", "file.md")})

HiddenTree == TreeOf({Dir("", ".github"), File(".github", "x.md")})

SymlinkTree == TreeOf({DirEntry("", "link.md", "symlink", TRUE), Dir("", "dir.md")})

UnreadableTree == TreeOf({File("", "a.md"), DirEntry("", "private", "dir", FALSE)})

UnreadableRoot == [exists |-> TRUE, readable |-> FALSE, entries |-> {}]

\* the directories of the processWorkflow runs
WorkflowTrees == {DocsTree, HiddenTree}

ManagerTrees == {HiddenTree}

(***************************************************************************)
(* Initial state: a new DocWorkflowManager                                 *)
(***************************************************************************)
\* no handler call has returned yet
NoReturn ==
    [by |-> "none", handler |-> "none", target |-> "", returns |-> "none",
     error |-> "", response |-> NoResponse("")]

\* the handler call c returned `returns`, its last console.error message (or
\* the message of the error it threw) being `error`
ReturnOf(c, returns, error, response) ==
    [by |-> c.by, handler |-> c.handler, target |-> c.target, returns |-> returns,
     error |-> error, response |-> response]

\* processUnzip has not been called yet
NoCheck ==
    [by |-> "none", check |-> "none", message |-> "", writes |-> <<>>,
     appended |-> <<>>, pushed |-> <<>>, latestBy |-> "none"]

\* the value of a ghost after a step that would record `new` in it
Observed(new, old) == IF observing THEN new ELSE old

\* the ways the scripts of the plans end
Children ==
    { Child("0", "", 12, ""),
      Child("0", "", 0, "deprecation warning"),
      Child("1", "", 0, "boom"),
      Child("null", "SIGKILL", 0, ""),
      Child("0", "", MaxBuffer + 1, "") }

\* no child process has been observed
NoChild == Child("none", "", 0, "")

\* docs/scripts holds the script the plans name, and nothing has been run
ImplementIdle ==
    /\ scripts = {ScriptPath("setup")}
    /\ spawned = <<>>

\* no direct processDirective call, and no standalone entry point
HostIdle ==
    /\ directiveCalls = 0
    /\ exitCode = "none"

NoRequest == [name |-> "none", url |-> "", targetPath |-> "", pattern |-> "",
              basePath |-> "", scriptName |-> "", planPath |-> ""]

NoToolResponse == [text |-> "", isError |-> FALSE]

\* no server
ServerIdle ==
    /\ toolCalls = 0
    /\ toolRequest = NoRequest
    /\ toolResponse = NoToolResponse
    /\ baseTree = NoTree
    /\ pathPlan = PlanAbsent

\* no ZipFile has been opened
NoZip ==
    [opened |-> FALSE, strict |-> TRUE, listening |-> FALSE, entries |-> <<>>, read |-> 0,
     pending |-> FALSE, ended |-> FALSE, closed |-> FALSE, failed |-> FALSE,
     stream |-> <<>>, promise |-> "none", requestsAfterFailure |-> 0, uncaught |-> FALSE,
     destination |-> ""]

\* no processUnzip call is followed entry by entry
ZipIdle == zip = NoZip

\* matchesPattern has no call to serve
GlobIdle ==
    /\ globPattern = ""
    /\ globPath = ""
    /\ globResult = "none"

\* a manager whose callers have made the downloads of history, and no run
ManagerWith(history) ==
    /\ downloadHistory = history
    /\ inflight = {}
    /\ issued = Len(history)
    /\ callerDownloads = Len(history)
    /\ answered = Len(history)
    /\ answered200 = Len(history)
    /\ wfPc = "Idle"
    /\ directives = <<>>
    /\ wfIdx = 0
    /\ wfResult = "none"
    /\ wfError = ""
    /\ calls = <<>>
    /\ outcomes = <<>>
    /\ fallbackCalls = 0
    /\ runs = 0
    /\ fsOps = <<>>
    /\ lastReturn = NoReturn
    /\ unzipCheck = NoCheck
    /\ appended = history
    /\ pushed = <<>>
    /\ latestBy = IF history = <<>> THEN "none" ELSE "download"
    /\ callerUnzips = 0
    /\ callerValidates = 0
    /\ callerPushes = 0

ManagerInit == ManagerWith(<<>>)

\* the histories of the managers whose parser is called directly
ParseHistories ==
    { <<>>,
      ProcessDownloadSettled("https://y/a.zip",
                             HttpResponse(200, "application/zip", "PK-archive")).push }

(***************************************************************************)
(* Direct calls of parseImplementationPlan                                 *)
(***************************************************************************)
ParseInit ==
    /\ planParts \in ParsePlans
    /\ planFile = PlanWith(TextOf(planParts))
    /\ parsed = NotParsed
    /\ parseCalls = 0
    /\ \E history \in ParseHistories : ManagerWith(history)
    /\ observing = FALSE
    /\ tree = NoTree
    /\ GlobIdle
    /\ ImplementIdle
    /\ HostIdle
    /\ ServerIdle
    /\ ZipIdle

CallParseImplementationPlan ==
    /\ parseCalls < MaxParseCalls
    /\ parsed' = ParseImplementationPlan(parsed.directives, planFile)
    /\ parseCalls' = parseCalls + 1
    /\ UNCHANGED <<planParts, planFile, ledgerVars, wfVars, fsVars, ghostVars, callerVars,
                   globVars, implVars, hostVars, serverVars, zipVars>>

ParseNext == CallParseImplementationPlan

SpecParse == ParseInit /\ [][ParseNext]_vars

(***************************************************************************)
(* The manager in use: processWorkflow runs, and callers using             *)
(* processDownload, getDownloadHistory and clearDownloadHistory directly   *)
(***************************************************************************)
InitWith(plans, trees) ==
    /\ \/ /\ planParts \in plans
          /\ planFile = PlanWith(TextOf(planParts))
       \/ /\ planParts = <<>>
          /\ planFile \in {PlanAbsent, PlanUnreadable}
    /\ parsed = NotParsed
    /\ parseCalls = 0
    /\ ManagerInit
    /\ observing = FALSE
    /\ tree \in trees
    /\ GlobIdle
    /\ ImplementIdle
    /\ HostIdle
    /\ ServerIdle
    /\ ZipIdle

Init == InitWith(WorkflowPlans, WorkflowTrees)

SetWf(next) ==
    /\ wfPc' = next.pc
    /\ wfIdx' = next.idx
    /\ wfResult' = next.result
    /\ wfError' = next.error

WorkflowCalls == {c \in inflight : c.by = "workflow"}

NewCall(by, handler, target) ==
    [id |-> issued + 1, by |-> by, handler |-> handler, target |-> target]

\* processWorkflow() is called: it calls parseImplementationPlan, which awaits
\* fs.readFile
CallProcessWorkflow ==
    /\ wfPc \in {"Idle", "Succeeded", "Failed"}
    /\ runs < MaxRuns
    /\ runs' = runs + 1
    /\ SetWf(WfAt("Start", 0, "none", ""))
    /\ directives' = <<>>
    /\ calls' = <<>>
    /\ outcomes' = <<>>
    /\ fallbackCalls' = 0
    /\ UNCHANGED <<parseVars, ledgerVars, fsVars, ghostVars, callerVars, globVars, implVars, hostVars, serverVars, zipVars>>

\* readFile settles; parseImplementationPlan returns or throws; the run
\* enters the loop, the fallback or the catch block
PlanParsed ==
    /\ wfPc = "Start"
    /\ LET r == ParseImplementationPlan(directives, planFile)
       IN  /\ directives' = r.directives
           /\ SetWf(AfterParse(r))
    /\ UNCHANGED <<parseVars, ledgerVars, calls, outcomes, fallbackCalls, runs, fsVars,
                   ghostVars, callerVars, globVars, implVars, hostVars, serverVars, zipVars>>

\* return await this.runFallbackFlow()
RunFallbackFlow ==
    /\ wfPc = "Fallback"
    /\ fallbackCalls' = fallbackCalls + 1
    /\ SetWf(WfAt(IF RunFallbackFlowResult = "true" THEN "Succeeded" ELSE "Failed",
                  wfIdx, RunFallbackFlowResult, wfError))
    /\ UNCHANGED <<parseVars, ledgerVars, directives, calls, outcomes, runs, fsVars,
                   ghostVars, callerVars, globVars, implVars, hostVars, serverVars, zipVars>>

\* what the workflow run does when the handler call c it awaits returns
Returned(c, outcome, message) ==
    IF c.by = "workflow"
    THEN /\ outcomes' = Append(outcomes, outcome)
         /\ SetWf(AfterDirective(outcome, message, wfIdx, Len(directives)))
         /\ UNCHANGED <<directives, calls, fallbackCalls, runs>>
    ELSE UNCHANGED wfVars

\* processUnzip is called: it reads the history, makes its checks and, when
\* they pass, requests its first writes
StartUnzip(c, mkdirOk) ==
    /\ unzipCheck' = Observed([by |-> c.by, check |-> UnzipPrecondition(downloadHistory),
                                message |-> UnzipMessage(downloadHistory),
                                writes |-> UnzipWrites(downloadHistory, c.target, mkdirOk),
                                appended |-> appended, pushed |-> pushed,
                                latestBy |-> latestBy], unzipCheck)
    /\ fsOps' = fsOps \o UnzipWrites(downloadHistory, c.target, mkdirOk)

\* processUnzip returns false without starting the extraction: a check failed,
\* or fs.mkdir rejected
UnzipStops(mkdirOk) == UnzipPrecondition(downloadHistory) # "ok" \/ ~mkdirOk

UnzipStopMessage ==
    IF UnzipPrecondition(downloadHistory) # "ok" THEN UnzipMessage(downloadHistory)
    ELSE "Unzip failed: Error: EACCES: permission denied, mkdir"

\* the loop calls processDirective for the current directive.  processUnzip
\* that stops before the extraction, and the default case, return false;
\* every other handler call awaits its I/O
ProcessDirective ==
    /\ wfPc = "Running"
    /\ WorkflowCalls = {}
    /\ \E mkdirOk \in BOOLEAN :
        LET d == directives[wfIdx]
            c == NewCall("workflow", HandlerFor(d.type), d.target)
            stops == \/ c.handler = "none"
                     \/ c.handler = "processUnzip" /\ UnzipStops(mkdirOk)
            message == IF c.handler = "none" THEN "Unknown directive type: " \o d.type
                       ELSE UnzipStopMessage
        IN  /\ calls' = Append(calls, [index |-> wfIdx, handler |-> c.handler,
                                       target |-> c.target])
            /\ IF c.handler = "processUnzip" THEN StartUnzip(c, mkdirOk)
               ELSE UNCHANGED <<unzipCheck, fsOps>>
            /\ IF stops
               THEN /\ outcomes' = Append(outcomes, "false")
                    /\ SetWf(AfterDirective("false", "", wfIdx, Len(directives)))
                    /\ lastReturn' = Observed(ReturnOf(c, "false", message, NoResponse("")),
                                              lastReturn)
                    /\ UNCHANGED <<inflight, issued>>
               ELSE /\ inflight' = inflight \cup {c}
                    /\ issued' = issued + 1
                    /\ UNCHANGED <<outcomes, wfPc, wfIdx, wfResult, wfError, lastReturn>>
    /\ UNCHANGED <<parseVars, downloadHistory, callerDownloads, answered, answered200,
                   directives, fallbackCalls, runs, tree, appended, pushed, latestBy,
                   callerVars, globVars, implVars, hostVars, serverVars, zipVars>>

\* a caller (the download_file tool, a test) calls processDownload
CallProcessDownload(url) ==
    /\ callerDownloads < MaxCallerDownloads
    /\ callerDownloads' = callerDownloads + 1
    /\ inflight' = inflight \cup {NewCall("caller", "processDownload", url)}
    /\ issued' = issued + 1
    /\ UNCHANGED <<parseVars, wfVars, downloadHistory, answered, answered200, fsVars,
                   ghostVars, callerVars, globVars, implVars, hostVars, serverVars, zipVars>>

\* axios.get of the processDownload call c settles with response
DownloadSettles(c, response) ==
    /\ c \in inflight
    /\ c.handler = "processDownload"
    /\ LET r == ProcessDownloadSettled(c.target, response)
       IN  /\ downloadHistory' = downloadHistory \o r.push
           /\ appended' = Observed(appended \o r.push, appended)
           /\ latestBy' = Observed(IF r.push # <<>> THEN "download" ELSE latestBy, latestBy)
           /\ lastReturn' = Observed(ReturnOf(c, r.returns, r.error, response), lastReturn)
           /\ Returned(c, r.returns, "")
    /\ answered' = answered + (IF response.received THEN 1 ELSE 0)
    /\ answered200' = answered200 + (IF response.received /\ response.status = 200 THEN 1 ELSE 0)
    /\ inflight' = inflight \ {c}
    /\ UNCHANGED <<parseVars, issued, callerDownloads, fsVars, unzipCheck, pushed,
                   callerVars, globVars, implVars, hostVars, serverVars, zipVars>>

\* the extraction of the processUnzip call c ends
UnzipSettles(c, outcome) ==
    /\ c \in inflight
    /\ c.handler = "processUnzip"
    /\ Returned(c, outcome, IF outcome = "threw" THEN UnzipErrorMessage ELSE "")
    /\ lastReturn' = Observed(ReturnOf(c, outcome,
                                       IF outcome = "threw" THEN UnzipErrorMessage
                                       ELSE IF outcome = "false" THEN "Unzip failed"
                                       ELSE "", NoResponse("")), lastReturn)
    /\ inflight' = inflight \ {c}
    /\ UNCHANGED <<parseVars, downloadHistory, issued, callerDownloads, answered,
                   answered200, fsVars, unzipCheck, appended, pushed, latestBy,
                   callerVars, globVars, implVars, hostVars, serverVars, zipVars>>

\* processValidate of call c returns: the directory exists and a file matches,
\* or not
ValidateSettles(c, outcome) ==
    /\ c \in inflight
    /\ c.handler = "processValidate"
    /\ outcome = ProcessValidate(tree, c.target).returns
    /\ Returned(c, outcome, "")
    /\ lastReturn' = Observed(ReturnOf(c, outcome, ProcessValidate(tree, c.target).error,
                                       NoResponse("")), lastReturn)
    /\ inflight' = inflight \ {c}
    /\ UNCHANGED <<parseVars, downloadHistory, issued, callerDownloads, answered,
                   answered200, fsVars, unzipCheck, appended, pushed, latestBy,
                   callerVars, globVars, implVars, hostVars, serverVars, zipVars>>

\* processImplement of call c returns: the script exists and exits with 0, or
\* not
ImplementSettles(c, outcome) ==
    /\ c \in inflight
    /\ c.handler = "processImplement"
    /\ \E child \in Children :
          LET r == ProcessImplement(scripts, c.target, child)
          IN  /\ outcome = r.returns
              /\ spawned' = spawned \o [i \in 1..Len(r.commands) |->
                                           [command |-> r.commands[i],
                                            child |-> Observed(child, NoChild)]]
              /\ lastReturn' = Observed(ReturnOf(c, outcome, r.error, NoResponse("")),
                                        lastReturn)
    /\ Returned(c, outcome, "")
    /\ inflight' = inflight \ {c}
    /\ UNCHANGED <<parseVars, downloadHistory, issued, callerDownloads, answered,
                   answered200, fsVars, unzipCheck, appended, pushed, latestBy,
                   callerVars, globVars, scripts, hostVars, serverVars, zipVars>>

\* a caller calls clearDownloadHistory()
ClearDownloadHistory ==
    /\ downloadHistory' = ClearedHistory
    /\ answered' = 0
    /\ answered200' = 0
    /\ appended' = <<>>
    /\ pushed' = <<>>
    /\ latestBy' = "none"
    /\ UNCHANGED <<parseVars, wfVars, inflight, issued, callerDownloads, fsVars,
                   lastReturn, unzipCheck, callerVars, globVars, implVars, hostVars, serverVars, zipVars>>

\* a caller calls getDownloadHistory() and reads the array
CallGetDownloadHistory ==
    /\ GetDownloadHistory(downloadHistory).items = downloadHistory
    /\ UNCHANGED vars

\* the history after manager.getDownloadHistory().push(record)
PushOnReturned(record) ==
    LET returned == GetDownloadHistory(downloadHistory)
    IN  downloadHistory' =
            AfterCallerWrote(downloadHistory, returned, Append(returned.items, record))

\* manager.getDownloadHistory().push(record), as the tests do
CallerPush ==
    /\ PushOnReturned(PushedRecord)
    /\ UNCHANGED <<parseVars, wfVars, inflight, issued, callerDownloads, answered,
                   answered200, fsVars, ghostVars, callerVars, globVars, implVars, hostVars, serverVars, zipVars>>

\* manager.getDownloadHistory().pop()
CallerPop ==
    /\ downloadHistory # <<>>
    /\ LET returned == GetDownloadHistory(downloadHistory)
       IN  downloadHistory' =
               AfterCallerWrote(downloadHistory, returned,
                                SubSeq(returned.items, 1, Len(returned.items) - 1))
    /\ UNCHANGED <<parseVars, wfVars, inflight, issued, callerDownloads, answered,
                   answered200, fsVars, ghostVars, callerVars, globVars, implVars, hostVars, serverVars, zipVars>>

\* the steps of a processWorkflow run and of the handlers it awaits
Next ==
    \/ CallProcessWorkflow
    \/ PlanParsed
    \/ RunFallbackFlow
    \/ ProcessDirective
    \/ \E c \in inflight, response \in Responses : DownloadSettles(c, response)
    \/ \E c \in inflight, outcome \in UnzipOutcomes : UnzipSettles(c, outcome)
    \/ \E c \in inflight, outcome \in {"true", "false"} : ValidateSettles(c, outcome)
    \/ \E c \in inflight, outcome \in {"true", "false"} : ImplementSettles(c, outcome)

Spec == Init /\ [][Next]_vars

\* the plans of the runs that share the manager with direct callers
ManagerPlans ==
    { <<ItemLine("1.", "**download**", "download", "https://x/doc.zip"),
        ItemLine("2.", "**unzip**", "unzip", "out")>>,
      <<ItemLine("3.", "**Validate**", "validate", "**/*.md"),
        ItemLine("4.", "**implement**", "implement", "setup")>> }

ManagerInitial == InitWith(ManagerPlans, ManagerTrees)

\* the same, with callers using the manager directly at any moment
ManagerNext ==
    \/ Next
    \/ \E url \in CallerUrls : CallProcessDownload(url)
    \/ ClearDownloadHistory
    \/ CallGetDownloadHistory
    \/ CallerPush
    \/ CallerPop

SpecManager == ManagerInitial /\ [][ManagerNext]_vars

(***************************************************************************)
(* Direct calls of matchesPattern                                          *)
(***************************************************************************)
\* patterns of letters, '/', '.', '*' and '?', and relative paths
GlobPatterns ==
    { "*.md", "docs/*.md", "**/*.md", "**", "docs/**", "*", "?.md", "a?c", "file.md",
      "*.m?", "docs/**/*.md", "a.c", "*/*.md", "" }

GlobPaths ==
    { "file.md", "file.txt", "docs/file.md", "other/file.md", "docs/sub/file.md",
      "filexmd", "abc", "a/c", "a.c", "x.md", "", ".md", "file.md.bak", "docs/",
      ".x/y.md", "docs/.a/b.md", "xfile.md", "file.mdx" }

\* no plan file, and the parser not called
NoPlan ==
    /\ planParts = <<>>
    /\ planFile = PlanAbsent
    /\ parsed = NotParsed
    /\ parseCalls = 0

GlobInit ==
    /\ NoPlan
    /\ ManagerInit
    /\ observing = FALSE
    /\ tree = NoTree
    /\ globPattern \in GlobPatterns
    /\ globPath \in GlobPaths
    /\ globResult = "none"
    /\ ImplementIdle
    /\ HostIdle
    /\ ServerIdle
    /\ ZipIdle

\* this.matchesPattern(globPath, globPattern)
CallMatchesPattern ==
    /\ globResult = "none"
    /\ globResult' = IF MatchesPattern(globPath, globPattern) THEN "true" ELSE "false"
    /\ UNCHANGED <<parseVars, wfVars, ledgerVars, fsVars, ghostVars, callerVars,
                   globPattern, globPath, implVars, hostVars, serverVars, zipVars>>

GlobNext == CallMatchesPattern

SpecGlob == GlobInit /\ [][GlobNext]_vars

(***************************************************************************)
(* Direct calls of processValidate                                         *)
(***************************************************************************)
Trees ==
    {NoTree, EmptyTree, DocsTree, HiddenTree, SymlinkTree, UnreadableTree, UnreadableRoot}

ValidatePatterns == {"*.md", "**/*.md", "docs/*.md", "*.txt", "docs/**"}

ValidateInit ==
    /\ NoPlan
    /\ ManagerInit
    /\ observing = TRUE
    /\ tree \in Trees
    /\ GlobIdle
    /\ ImplementIdle
    /\ HostIdle
    /\ ServerIdle
    /\ ZipIdle

\* a caller (the validate_docs tool, a test) calls processValidate, which
\* awaits fs.access
CallProcessValidate(pattern) ==
    /\ callerValidates < MaxCallerValidates
    /\ callerValidates' = callerValidates + 1
    /\ inflight' = inflight \cup {NewCall("caller", "processValidate", pattern)}
    /\ issued' = issued + 1
    /\ UNCHANGED <<parseVars, wfVars, downloadHistory, callerDownloads, answered,
                   answered200, fsVars, ghostVars, callerUnzips, callerPushes, observing,
                   globVars, implVars, hostVars, serverVars, zipVars>>

ValidateNext ==
    \/ \E pattern \in ValidatePatterns : CallProcessValidate(pattern)
    \/ \E c \in inflight, outcome \in {"true", "false"} : ValidateSettles(c, outcome)

SpecValidate == ValidateInit /\ [][ValidateNext]_vars

(***************************************************************************)
(* Direct calls of processDownload and processUnzip, and the pushes the    *)
(* tests make onto the array getDownloadHistory returned                   *)
(***************************************************************************)
HandlerResponses ==
    Responses \cup
    { HttpResponse(200, "application/json", LowerExpiredBody),
      HttpResponse(200, "application/json", NoMessageBody),
      HttpResponse(200, "application/json", InvalidJsonBody),
      HttpResponse(200, "text/plain", ExpiredBody),
      HttpResponse(500, "application/json", ExpiredBody) }

\* the records the tests push
PushedRecords ==
    { PushedRecord,
      DownloadResult("https://example.com/file.zip", NullData, "application/zip", FALSE, ""),
      DownloadResult("https://example.com/file.txt", "text content", "text/plain", FALSE, "") }

UnzipTargets == {"documentation", ""}

HandlersInit ==
    /\ NoPlan
    /\ ManagerInit
    /\ observing = TRUE
    /\ tree = NoTree
    /\ GlobIdle
    /\ ImplementIdle
    /\ HostIdle
    /\ ServerIdle
    /\ ZipIdle

\* a caller (the unzip tool, a test) calls processUnzip
CallProcessUnzip(targetPath, mkdirOk) ==
    /\ callerUnzips < MaxCallerUnzips
    /\ callerUnzips' = callerUnzips + 1
    /\ LET c == NewCall("caller", "processUnzip", targetPath)
       IN  /\ StartUnzip(c, mkdirOk)
           /\ IF UnzipStops(mkdirOk)
              THEN /\ lastReturn' = Observed(ReturnOf(c, "false", UnzipStopMessage,
                                                      NoResponse("")), lastReturn)
                   /\ UNCHANGED <<inflight, issued>>
              ELSE /\ inflight' = inflight \cup {c}
                   /\ issued' = issued + 1
                   /\ UNCHANGED lastReturn
    /\ UNCHANGED <<parseVars, wfVars, downloadHistory, callerDownloads, answered,
                   answered200, tree, appended, pushed, latestBy, callerValidates,
                   callerPushes, observing, globVars, implVars, hostVars, serverVars, zipVars>>

\* a test pushes record onto the array getDownloadHistory returned
TestPush(record) ==
    /\ callerPushes < MaxCallerPushes
    /\ callerPushes' = callerPushes + 1
    /\ PushOnReturned(record)
    /\ pushed' = Observed(Append(pushed, record), pushed)
    /\ latestBy' = Observed("caller", latestBy)
    /\ UNCHANGED <<parseVars, wfVars, inflight, issued, callerDownloads, answered,
                   answered200, fsVars, lastReturn, unzipCheck, appended, callerUnzips,
                   callerValidates, observing, globVars, implVars, hostVars, serverVars, zipVars>>

\* a caller that awaits each call before it makes the next one, as the tests do
Awaited == inflight = {}

\* the responses the ledger of the unzip tests is built from
UnzipResponses ==
    { HttpResponse(200, "application/zip", "PK-archive"),
      HttpResponse(200, "application/json", ExpiredBody),
      HttpResponse(200, "application/json; charset=utf-8", OtherJsonBody) }

DownloadsNext ==
    \/ \E url \in CallerUrls : CallProcessDownload(url)
    \/ \E c \in inflight, response \in HandlerResponses : DownloadSettles(c, response)
    \/ ClearDownloadHistory

SpecDownloads == HandlersInit /\ [][DownloadsNext]_vars

UnzipNext ==
    \/ \E url \in CallerUrls : Awaited /\ CallProcessDownload(url)
    \/ \E c \in inflight, response \in UnzipResponses : DownloadSettles(c, response)
    \/ \E targetPath \in UnzipTargets, mkdirOk \in BOOLEAN :
          Awaited /\ CallProcessUnzip(targetPath, mkdirOk)
    \/ \E c \in inflight, outcome \in UnzipOutcomes : UnzipSettles(c, outcome)
    \/ \E record \in PushedRecords : Awaited /\ TestPush(record)
    \/ Awaited /\ ClearDownloadHistory

SpecUnzip == HandlersInit /\ [][UnzipNext]_vars

(***************************************************************************)
(* Runs whose handler invocations all terminate                            *)
(***************************************************************************)
RunParts ==
    { ItemLine("1.", "**download**", "download", "https://x/doc.zip"),
      ItemLine("2.", "**unzip**", "unzip", "out"),
      ItemLine("3.", "**validate**", "validate", "*.md"),
      ItemLine("4.", "**implement**", "implement", "setup") }

RunPlans == SeqsUpTo(RunParts, MaxPlanLines)

RunInit == InitWith(RunPlans, {DocsTree})

\* fs.readFile settles and parseImplementationPlan returns or throws: the run
\* leaves Start (the steps of PlanParsed, and it is enabled when they are)
PlanRead == wfPc = "Start" /\ wfPc' \in {"Running", "Fallback", "Failed"}

\* a handler invocation in flight terminates (the steps of DownloadSettles,
\* UnzipSettles, ValidateSettles and ImplementSettles)
HandlerReturns == \E c \in inflight : inflight' = inflight \ {c}

\* the event loop resumes a run whose await has settled, and every handler
\* invocation terminates
SpecRun ==
    /\ RunInit
    /\ [][Next]_vars
    /\ WF_wfPc(PlanRead)
    /\ WF_vars(ProcessDirective)
    /\ WF_vars(RunFallbackFlow)
    /\ WF_inflight(HandlerReturns)

(***************************************************************************)
(* processDownload calls that overlap                                      *)
(***************************************************************************)
\* the urls of the fetches, in the order in which they are issued
FetchUrls == <<"https://y/a.zip", "https://y/b.zip", "https://y/c.zip">>

\* a caller (the download_file tool, which awaits nothing before it calls
\* processDownload(args.url)) issues its next fetch, whether or not the
\* earlier ones have settled
IssueFetch ==
    /\ callerDownloads < Len(FetchUrls)
    /\ CallProcessDownload(FetchUrls[callerDownloads + 1])

OverlapNext ==
    \/ IssueFetch
    \/ \E c \in inflight, response \in HandlerResponses : DownloadSettles(c, response)

SpecOverlap == HandlersInit /\ [][OverlapNext]_vars

(***************************************************************************)
(* Runs whose downloads meet every kind of response                        *)
(***************************************************************************)
\* an expired download stops these plans before their second directive
ExpiryPlans ==
    { <<ItemLine("1.", "**download**", "download", "https://x/doc.zip"),
        ItemLine("2.", "**unzip**", "unzip", "out")>>,
      <<ItemLine("1.", "**download**", "download", "https://x/doc.zip"),
        ItemLine("2.", "**download**", "download", "https://x/more.zip")>>,
      <<ItemLine("1.", "**unzip**", "unzip", "out"),
        ItemLine("2.", "**download**", "download", "https://x/doc.zip")>> }

ExpiryInit ==
    /\ \/ /\ planParts \in ExpiryPlans
          /\ planFile = PlanWith(TextOf(planParts))
       \/ /\ planParts = <<>>
          /\ planFile = PlanAbsent
    /\ parsed = NotParsed
    /\ parseCalls = 0
    /\ ManagerInit
    /\ observing = TRUE
    /\ tree \in ManagerTrees
    /\ GlobIdle
    /\ ImplementIdle
    /\ HostIdle
    /\ ServerIdle
    /\ ZipIdle

ExpiryNext ==
    \/ CallProcessWorkflow
    \/ PlanParsed
    \/ RunFallbackFlow
    \/ ProcessDirective
    \/ \E c \in inflight, response \in HandlerResponses : DownloadSettles(c, response)
    \/ \E c \in inflight, outcome \in UnzipOutcomes : UnzipSettles(c, outcome)

SpecExpiry == ExpiryInit /\ [][ExpiryNext]_vars

(***************************************************************************)
(* Direct calls of processImplement                                        *)
(***************************************************************************)
\* what docs/scripts holds
ScriptSets ==
    { {},
      {ScriptPath("setup")},
      {ScriptPath("setup"), ScriptPath("build")},
      {"docs/scripts/build.ts", "docs/build.js"} }

\* the script names callers pass
ScriptNames == {"setup", "build"}

ImplementInit ==
    /\ NoPlan
    /\ ManagerInit
    /\ observing = TRUE
    /\ tree = NoTree
    /\ GlobIdle
    /\ scripts \in ScriptSets
    /\ spawned = <<>>
    /\ HostIdle
    /\ ServerIdle
    /\ ZipIdle

\* a caller (the execute_script tool, a test) calls processImplement, which
\* awaits fs.access
CallProcessImplement(script) ==
    /\ issued < MaxCallerImplements
    /\ inflight' = inflight \cup {NewCall("caller", "processImplement", script)}
    /\ issued' = issued + 1
    /\ UNCHANGED <<parseVars, wfVars, downloadHistory, callerDownloads, answered,
                   answered200, fsVars, ghostVars, callerVars, globVars, implVars,
                   hostVars, serverVars, zipVars>>

ImplementNext ==
    \/ \E script \in ScriptNames : CallProcessImplement(script)
    \/ \E c \in inflight, outcome \in {"true", "false"} : ImplementSettles(c, outcome)

SpecImplement == ImplementInit /\ [][ImplementNext]_vars

(***************************************************************************)
(* Direct calls of processDirective                                        *)
(***************************************************************************)
\* the directives the tests pass, and one whose type is capitalised
TestDirectives ==
    { [type |-> "download", target |-> "https://y/a.zip", raw |-> "raw"],
      [type |-> "unzip", target |-> "out", raw |-> "raw"],
      [type |-> "validate", target |-> "*.md", raw |-> "raw"],
      [type |-> "implement", target |-> "setup", raw |-> "raw"],
      [type |-> "unknown", target |-> "test", raw |-> "raw"],
      [type |-> "Download", target |-> "https://y/a.zip", raw |-> "raw"] }

DirectiveInit ==
    /\ NoPlan
    /\ ManagerInit
    /\ observing = TRUE
    /\ tree = DocsTree
    /\ GlobIdle
    /\ ImplementIdle
    /\ HostIdle
    /\ ServerIdle
    /\ ZipIdle

\* a caller (a test) calls processDirective(d): the handler its switch selects
\* is called, and its entry in calls keeps d
CallProcessDirective(d, mkdirOk) ==
    /\ directiveCalls < MaxDirectiveCalls
    /\ directiveCalls' = directiveCalls + 1
    /\ LET c == NewCall("caller", HandlerFor(d.type), d.target)
           stops == \/ c.handler = "none"
                    \/ c.handler = "processUnzip" /\ UnzipStops(mkdirOk)
           message == IF c.handler = "none" THEN "Unknown directive type: " \o d.type
                      ELSE UnzipStopMessage
       IN  /\ calls' = Append(calls, [index |-> 0, handler |-> c.handler,
                                      target |-> c.target, directive |-> d])
           /\ IF c.handler = "processUnzip" THEN StartUnzip(c, mkdirOk)
              ELSE UNCHANGED <<unzipCheck, fsOps>>
           /\ IF stops
              THEN /\ lastReturn' = Observed(ReturnOf(c, "false", message, NoResponse("")),
                                             lastReturn)
                   /\ UNCHANGED <<inflight, issued>>
              ELSE /\ inflight' = inflight \cup {c}
                   /\ issued' = issued + 1
                   /\ UNCHANGED lastReturn
    /\ UNCHANGED <<parseVars, wfPc, directives, wfIdx, wfResult, wfError, outcomes,
                   fallbackCalls, runs, downloadHistory, callerDownloads, answered,
                   answered200, tree, appended, pushed, latestBy, callerVars, globVars,
                   implVars, exitCode, serverVars, zipVars>>

DirectiveNext ==
    \/ \E d \in TestDirectives, mkdirOk \in BOOLEAN :
          Awaited /\ CallProcessDirective(d, mkdirOk)
    \/ \E c \in inflight, response \in UnzipResponses : DownloadSettles(c, response)
    \/ \E c \in inflight, outcome \in UnzipOutcomes : UnzipSettles(c, outcome)
    \/ \E c \in inflight, outcome \in {"true", "false"} : ValidateSettles(c, outcome)
    \/ \E c \in inflight, outcome \in {"true", "false"} : ImplementSettles(c, outcome)

SpecDirective == DirectiveInit /\ [][DirectiveNext]_vars

(***************************************************************************)
(* The standalone entry point                                              *)
(***************************************************************************)
\* a faulty variant of ExitCodeFor: always 0
ExitCodeZero(success) == "0"

\* process.exit(0) if success, process.exit(1) otherwise
ExitCodeFor(success) == IF success THEN "0" ELSE "1"

\* main() makes a DocWorkflowManager and awaits its processWorkflow()
MainCallsProcessWorkflow ==
    /\ exitCode = "none"
    /\ runs = 0
    /\ CallProcessWorkflow

\* processWorkflow has returned: main exits
MainExits ==
    /\ exitCode = "none"
    /\ wfPc \in {"Succeeded", "Failed"}
    /\ exitCode' = ExitCodeFor(wfResult = "true")
    /\ UNCHANGED <<parseVars, wfVars, ledgerVars, fsVars, ghostVars, callerVars, globVars,
                   implVars, directiveCalls, serverVars, zipVars>>

\* main() rejects before processWorkflow is called (process.cwd() throws in
\* the constructor when the working directory is gone): main().catch exits
MainCatches ==
    /\ exitCode = "none"
    /\ runs = 0
    /\ wfPc = "Idle"
    /\ exitCode' = "1"
    /\ UNCHANGED <<parseVars, wfVars, ledgerVars, fsVars, ghostVars, callerVars, globVars,
                   implVars, directiveCalls, serverVars, zipVars>>

MainNext ==
    \/ MainCallsProcessWorkflow
    \/ PlanParsed
    \/ RunFallbackFlow
    \/ ProcessDirective
    \/ \E c \in inflight, response \in Responses : DownloadSettles(c, response)
    \/ \E c \in inflight, outcome \in UnzipOutcomes : UnzipSettles(c, outcome)
    \/ \E c \in inflight, outcome \in {"true", "false"} : ValidateSettles(c, outcome)
    \/ \E c \in inflight, outcome \in {"true", "false"} : ImplementSettles(c, outcome)
    \/ MainExits
    \/ MainCatches

SpecMain == Init /\ [][MainNext]_vars

(***************************************************************************)
(* Runs that download an archive and extract it                            *)
(***************************************************************************)
ExtractPlans ==
    { <<ItemLine("1.", "**download**", "download", "https://x/doc.zip"),
        ItemLine("2.", "**unzip**", "unzip", "out")>>,
      <<ItemLine("1.", "**download**", "download", "https://x/doc.zip"),
        ItemLine("2.", "**unzip**", "unzip", "out"),
        ItemLine("3.", "**unzip**", "unzip", "documentation")>>,
      <<ItemLine("1.", "**download**", "download", "https://x/old.zip"),
        ItemLine("2.", "**download**", "download", "https://x/doc.zip"),
        ItemLine("3.", "**unzip**", "unzip", "out")>> }

ArchiveResponses ==
    { HttpResponse(200, "application/zip", "PK-archive"),
      HttpResponse(200, "application/zip", "PK-flat"),
      HttpResponse(200, "application/zip", "PK-empty"),
      HttpResponse(200, "application/zip", "<html>moved</html>"),
      HttpResponse(200, "application/octet-stream", "PK-archive"),
      HttpResponse(404, "text/html", "Not Found") }

ExtractInit ==
    /\ planParts \in ExtractPlans
    /\ planFile = PlanWith(TextOf(planParts))
    /\ parsed = NotParsed
    /\ parseCalls = 0
    /\ ManagerInit
    /\ observing = TRUE
    /\ tree = NoTree
    /\ GlobIdle
    /\ ImplementIdle
    /\ HostIdle
    /\ ServerIdle
    /\ ZipIdle

\* the processUnzip call c, which wrote temp_download.zip last, ends
ExtractionSettles(c) ==
    /\ c \in inflight
    /\ c.handler = "processUnzip"
    /\ LET r == Extraction(fsOps[Len(fsOps)].data, Destination(c.target))
       IN  /\ fsOps' = fsOps \o r.writes
           /\ Returned(c, r.outcome, IF r.outcome = "threw" THEN r.error ELSE "")
           /\ lastReturn' = Observed(ReturnOf(c, r.outcome, r.error, NoResponse("")),
                                     lastReturn)
    /\ inflight' = inflight \ {c}
    /\ UNCHANGED <<parseVars, downloadHistory, issued, callerDownloads, answered,
                   answered200, tree, unzipCheck, appended, pushed, latestBy,
                   callerVars, globVars, implVars, hostVars, serverVars, zipVars>>

ExtractNext ==
    \/ CallProcessWorkflow
    \/ PlanParsed
    \/ ProcessDirective
    \/ \E c \in inflight, response \in ArchiveResponses : DownloadSettles(c, response)
    \/ \E c \in inflight : ExtractionSettles(c)

SpecExtract == ExtractInit /\ [][ExtractNext]_vars

(***************************************************************************)
(* MCPDocWorkflowServer: the CallTool request handler                      *)
(***************************************************************************)
ToolNames ==
    {"download_file", "extract_archive", "validate_patterns", "execute_script",
     "process_workflow"}

\* request.params: the name, and the arguments the tool schemas declare
Request(name, url, targetPath, pattern, basePath, scriptName, planPath) ==
    [name |-> name, url |-> url, targetPath |-> targetPath, pattern |-> pattern,
     basePath |-> basePath, scriptName |-> scriptName, planPath |-> planPath]

\* the argument the handler passes to the manager: args.url,
\* args.targetPath || 'documentation', args.pattern, args.scriptName, and
\* nothing for processWorkflow()
ToolTarget(request) ==
    IF request.name = "download_file" THEN request.url
    ELSE IF request.name = "extract_archive"
    THEN (IF request.targetPath = "" THEN "documentation" ELSE request.targetPath)
    ELSE IF request.name = "validate_patterns" THEN request.pattern
    ELSE IF request.name = "execute_script" THEN request.scriptName
    ELSE ""

\* the method of this.workflowManager the case of the switch awaits
ToolMethod(name) ==
    IF name = "download_file" THEN "processDownload"
    ELSE IF name = "extract_archive" THEN "processUnzip"
    ELSE IF name = "validate_patterns" THEN "processValidate"
    ELSE IF name = "execute_script" THEN "processImplement"
    ELSE IF name = "process_workflow" THEN "processWorkflow"
    ELSE "none"

\* the text of the response when the awaited method returned success
ToolText(request, success) ==
    IF request.name = "download_file"
    THEN (IF success THEN "Successfully downloaded from " ELSE "Failed to download from ")
         \o request.url
    ELSE IF request.name = "extract_archive"
    THEN (IF success THEN "Successfully extracted archive to " \o ToolTarget(request)
          ELSE "Failed to extract archive")
    ELSE IF request.name = "validate_patterns"
    THEN (IF success THEN "Pattern validation successful for: "
          ELSE "Pattern validation failed for: ") \o request.pattern
    ELSE IF request.name = "execute_script"
    THEN (IF success THEN "Script execution successful: "
          ELSE "Script execution failed: ") \o request.scriptName
    ELSE IF success THEN "Workflow processing completed successfully"
    ELSE "Workflow processing failed"

\* the response of the handler: `returns` is what the awaited method returned,
\* "threw" with `message` when it, or the default case, threw
ToolResponse(request, returns, message) ==
    IF returns = "threw"
    THEN [text |-> "Error executing " \o request.name \o ": " \o message, isError |-> TRUE]
    ELSE [text |-> ToolText(request, returns = "true"), isError |-> FALSE]

ToolRequests ==
    { Request("download_file", "https://x/doc.zip", "", "", "", "", ""),
      Request("extract_archive", "", "out", "", "", "", ""),
      Request("extract_archive", "", "", "", "", "", ""),
      Request("validate_patterns", "", "", "*.md", "out", "", ""),
      Request("validate_patterns", "", "", "*.md", "", "", ""),
      Request("execute_script", "", "", "", "", "build", ""),
      Request("process_workflow", "", "", "", "", "", "plans/other.md"),
      Request("process_workflow", "", "", "", "", "", ""),
      Request("list_files", "", "", "", "", "", "") }

ServerResponses ==
    { HttpResponse(200, "application/zip", "PK-archive"),
      HttpResponse(404, "text/html", "Not Found") }

\* the directories 'documentation' and 'out'
ServerTrees == {<<NoTree, DocsTree>>, <<DocsTree, NoTree>>, <<DocsTree, EmptyTree>>}

\* docs/implementation_plan.md, and plans/other.md
ServerPlans ==
    { <<ItemLine("1.", "**download**", "download", "https://x/doc.zip")>>,
      <<ItemLine("1.", "**download**", "download", "https://x/doc.zip"),
        ItemLine("2.", "**unzip**", "unzip", "out")>> }

OtherPlan == <<ItemLine("1.", "**validate**", "validate", "*.md")>>

\* new MCPDocWorkflowServer(): one DocWorkflowManager for every request
ServerInit ==
    /\ planParts \in ServerPlans
    /\ planFile = PlanWith(TextOf(planParts))
    /\ parsed = NotParsed
    /\ parseCalls = 0
    /\ ManagerInit
    /\ observing = TRUE
    /\ \E trees \in ServerTrees : tree = trees[1] /\ baseTree = trees[2]
    /\ GlobIdle
    /\ ImplementIdle
    /\ HostIdle
    /\ toolCalls = 0
    /\ toolRequest = NoRequest
    /\ toolResponse = NoToolResponse
    /\ pathPlan = PlanWith(TextOf(OtherPlan))
    /\ ZipIdle

\* the server has answered every request it received
ServerAnswered == toolRequest = NoRequest \/ toolResponse # NoToolResponse

\* the handler receives request and calls the method of the manager that the
\* switch selects; the default case throws.  Requests are served one at a
\* time.
CallTool(request, mkdirOk) ==
    /\ toolCalls < MaxToolCalls
    /\ ServerAnswered
    /\ toolCalls' = toolCalls + 1
    /\ toolRequest' = request
    /\ toolResponse' = NoToolResponse
    /\ LET c == NewCall("caller", ToolMethod(request.name), ToolTarget(request))
       IN  IF c.handler = "processWorkflow"
           THEN /\ runs' = runs + 1
                /\ SetWf(WfAt("Start", 0, "none", ""))
                /\ directives' = <<>>
                /\ calls' = <<>>
                /\ outcomes' = <<>>
                /\ fallbackCalls' = 0
                /\ UNCHANGED <<ledgerVars, fsOps, ghostVars, callerUnzips,
                               callerValidates>>
           ELSE IF c.handler = "processUnzip"
           THEN /\ callerUnzips' = callerUnzips + 1
                /\ StartUnzip(c, mkdirOk)
                /\ IF UnzipStops(mkdirOk)
                   THEN /\ lastReturn' = ReturnOf(c, "false", UnzipStopMessage,
                                                  NoResponse(""))
                        /\ UNCHANGED <<inflight, issued>>
                   ELSE /\ inflight' = inflight \cup {c}
                        /\ issued' = issued + 1
                        /\ UNCHANGED lastReturn
                /\ UNCHANGED <<wfVars, downloadHistory, callerDownloads, answered,
                               answered200, appended, pushed, latestBy, callerValidates>>
           ELSE IF c.handler = "none"
           THEN /\ lastReturn' = ReturnOf(c, "threw", "Unknown tool: " \o request.name,
                                          NoResponse(""))
                /\ UNCHANGED <<wfVars, ledgerVars, fsOps, unzipCheck, appended, pushed,
                               latestBy, callerUnzips, callerValidates>>
           ELSE /\ inflight' = inflight \cup {c}
                /\ issued' = issued + 1
                /\ callerDownloads' = callerDownloads
                                        + (IF c.handler = "processDownload" THEN 1 ELSE 0)
                /\ callerValidates' = callerValidates
                                        + (IF c.handler = "processValidate" THEN 1 ELSE 0)
                /\ UNCHANGED <<wfVars, downloadHistory, answered, answered200, fsOps,
                               ghostVars, callerUnzips>>
    /\ UNCHANGED <<parseVars, tree, callerPushes, observing, globVars, implVars, hostVars,
                   baseTree, pathPlan, zipVars>>

\* the awaited method has returned, or thrown: the handler returns its response
ToolResponds ==
    /\ ~ServerAnswered
    /\ inflight = {}
    /\ wfPc \in {"Idle", "Succeeded", "Failed"}
    /\ toolResponse' =
         IF toolRequest.name = "process_workflow"
         THEN ToolResponse(toolRequest, wfResult, wfError)
         ELSE ToolResponse(toolRequest, lastReturn.returns, lastReturn.error)
    /\ UNCHANGED <<parseVars, wfVars, ledgerVars, fsVars, ghostVars, callerVars, globVars,
                   implVars, hostVars, toolCalls, toolRequest, baseTree, pathPlan,
                   zipVars>>

ServerNext ==
    \/ \E request \in ToolRequests, mkdirOk \in BOOLEAN : CallTool(request, mkdirOk)
    \/ ToolResponds
    \/ PlanParsed
    \/ ProcessDirective
    \/ \E c \in inflight, response \in ServerResponses : DownloadSettles(c, response)
    \/ \E c \in inflight : ExtractionSettles(c)
    \/ \E c \in inflight, outcome \in {"true", "false"} : ValidateSettles(c, outcome)
    \/ \E c \in inflight, outcome \in {"true", "false"} : ImplementSettles(c, outcome)

SpecServer == ServerInit /\ [][ServerNext]_vars

(***************************************************************************)
(* The extraction of processUnzip, event by event.  zip follows one call:  *)
(* the ZipFile yauzl.open returned, the state of each entry's streams and  *)
(* the promise the call returned.  The source of yauzl is not part of the  *)
(* repository, which declares its interface only (yauzl.d.ts); zip.strict  *)
(* tells which ZipFile the call meets.  A strict one is yauzl's: opened    *)
(* without lazyEntries it refuses readEntry() and reads its entries on its *)
(* own.  The other one accepts readEntry() and emits one 'entry' or 'end'  *)
(* event for each call, which is what the handlers are written for.        *)
(***************************************************************************)
ZipFileKinds == BOOLEAN

\* entry.fileName.endsWith('/')
IsDirectoryEntry(fileName) == Ch(fileName, Len(fileName)) = "/"

\* resolve(value): settles the promise unless it is settled already
Resolve(z, value) ==
    [z EXCEPT !.promise = IF z.promise = "pending" THEN value ELSE z.promise]

\* zipfile.close()
Close(z) == [z EXCEPT !.closed = TRUE]

\* zipfile.readEntry() called by a handler: a closed ZipFile emits no entry
ReadEntry(z) ==
    [z EXCEPT !.pending = ~z.closed,
              !.requestsAfterFailure = @ + (IF z.promise = "false" THEN 1 ELSE 0)]

\* the state of the k-th entry's streams becomes state
Stream(z, k, state) == [z EXCEPT !.stream[k] = state]

\* what a console.error / resolve(false) handler does
Abort(z) == Resolve(Close(z), "false")

\* the records whose extraction is followed
EntryHistories ==
    { <<DownloadResult("https://x/doc.zip", data, "application/zip", FALSE, "")>> :
        data \in {"PK-archive", "PK-flat", "PK-empty", "<html>moved</html>"} }

\* the targetPath arguments of the calls followed
ExtractTargets == {"out", ""}

EntriesInit ==
    /\ NoPlan
    /\ \E history \in EntryHistories : ManagerWith(history)
    /\ observing = TRUE
    /\ tree = NoTree
    /\ GlobIdle
    /\ ImplementIdle
    /\ HostIdle
    /\ ServerIdle
    /\ ZipIdle

\* every step below leaves the rest of the manager alone
EntriesUnchanged ==
    UNCHANGED <<parseVars, wfVars, ledgerVars, tree, ghostVars, callerVars, globVars,
                implVars, hostVars, serverVars>>

\* processUnzip(ExtractTarget) up to the executor of the promise it returns:
\* the checks, fs.mkdir, fs.writeFile, yauzl.open without options, and the
\* first zipfile.readEntry(), which throws before a handler is attached or
\* returns
OpenZip(targetPath, mkdirOk, strict) ==
    /\ zip = NoZip
    /\ UnzipPrecondition(downloadHistory) = "ok"
    /\ fsOps' = fsOps \o UnzipWrites(downloadHistory, targetPath, mkdirOk)
    /\ LET zipfile == YauzlOpen(LatestDownload(downloadHistory).data, OpenOptions)
           opened  == [NoZip EXCEPT !.opened = TRUE, !.strict = strict,
                                    !.destination = Destination(targetPath),
                                    !.entries = zipfile.entries,
                                    !.stream = [k \in 1..Len(zipfile.entries) |-> "none"]]
       IN  zip' = IF ~mkdirOk \/ ~zipfile.opened
                  THEN [NoZip EXCEPT !.promise = "false"]
                  ELSE IF strict /\ ReadEntryThrows(zipfile)
                  THEN [opened EXCEPT !.promise = "threw"]
                  ELSE [opened EXCEPT !.promise = "pending", !.listening = TRUE,
                                      !.pending = TRUE]
    /\ EntriesUnchanged

\* a faulty variant of EntryHandler: the next entry is requested at once
EntryHandlerEager(z, k) ==
    [(IF IsDirectoryEntry(z.entries[k]) THEN Stream(z, k, "mkdir")
      ELSE Stream(z, k, "opening")) EXCEPT !.pending = TRUE]

\* the 'entry' handler up to its first asynchronous call: fs.mkdir for a
\* directory entry, zipfile.openReadStream for a file entry
EntryHandler(z, k) ==
    IF IsDirectoryEntry(z.entries[k]) THEN Stream(z, k, "mkdir")
    ELSE Stream(z, k, "opening")

\* the ZipFile can emit: it is open, has not failed, and the process lives
Emitting ==
    /\ zip.opened
    /\ ~zip.closed
    /\ ~zip.failed
    /\ ~zip.ended
    /\ ~zip.uncaught
    /\ zip.listening => zip.pending

\* the ZipFile emits 'entry' for its next entry, and the handler, if attached,
\* requests fs.mkdir for a directory and zipfile.openReadStream for a file
ZipfileEmitsEntry ==
    /\ Emitting
    /\ zip.read < Len(zip.entries)
    /\ LET k == zip.read + 1
           z == [zip EXCEPT !.read = k, !.pending = FALSE]
       IN  zip' = IF zip.listening THEN EntryHandler(z, k) ELSE z
    /\ UNCHANGED fsOps
    /\ EntriesUnchanged

\* the ZipFile emits 'end' after its last entry, and the handler, if attached,
\* closes it, unlinks the temporary file and resolves true
ZipfileEmitsEnd ==
    /\ Emitting
    /\ zip.read = Len(zip.entries)
    /\ LET z == [zip EXCEPT !.ended = TRUE, !.pending = FALSE]
       IN  IF zip.listening
           THEN /\ zip' = Resolve(Close(z), "true")
                /\ fsOps' = Append(fsOps, FsOp("unlink", zip.destination \o "/temp_download.zip", ""))
           ELSE /\ zip' = Close(z)
                /\ UNCHANGED fsOps
    /\ EntriesUnchanged

\* the ZipFile emits 'error' while it reads, and the handler, if attached,
\* closes it and resolves false; without a listener the event is an uncaught
\* exception
ZipfileEmitsError ==
    /\ Emitting
    /\ LET z == [zip EXCEPT !.failed = TRUE, !.pending = FALSE]
       IN  zip' = IF zip.listening THEN Abort(z) ELSE [z EXCEPT !.uncaught = TRUE]
    /\ UNCHANGED fsOps
    /\ EntriesUnchanged

\* fs.mkdir of the directory entry k settles: .then reads the next entry,
\* .catch aborts
MkdirSettles(k, ok) ==
    /\ ~zip.uncaught
    /\ zip.stream[k] = "mkdir"
    /\ IF ok
       THEN /\ zip' = ReadEntry(Stream(zip, k, "created"))
            /\ fsOps' = Append(fsOps, FsOp("mkdir", zip.destination \o "/" \o zip.entries[k], ""))
       ELSE /\ zip' = Abort(Stream(zip, k, "mkdirFailed"))
            /\ UNCHANGED fsOps
    /\ EntriesUnchanged

\* the callback of zipfile.openReadStream for the file entry k: with err it
\* aborts, otherwise it creates the write stream and pipes
OpenReadStreamSettles(k, ok) ==
    /\ ~zip.uncaught
    /\ zip.stream[k] = "opening"
    /\ IF ok
       THEN /\ zip' = Stream(zip, k, "piping")
            /\ fsOps' = Append(fsOps, FsOp("createWriteStream",
                                           zip.destination \o "/" \o zip.entries[k], ""))
       ELSE /\ zip' = Abort(Stream(zip, k, "openFailed"))
            /\ UNCHANGED fsOps
    /\ EntriesUnchanged

\* the write stream of entry k emits 'close', after the pipe has ended or
\* after the stream's 'error': the handler reads the next entry
WriteStreamCloses(k) ==
    /\ ~zip.uncaught
    /\ zip.stream[k] \in {"piping", "writeFailed"}
    /\ zip' = ReadEntry(Stream(zip, k, IF zip.stream[k] = "piping" THEN "closed"
                                       ELSE "closedAfterError"))
    /\ UNCHANGED fsOps
    /\ EntriesUnchanged

\* the write stream of entry k emits 'error': the handler aborts
WriteStreamErrors(k) ==
    /\ ~zip.uncaught
    /\ zip.stream[k] = "piping"
    /\ zip' = Abort(Stream(zip, k, "writeFailed"))
    /\ UNCHANGED fsOps
    /\ EntriesUnchanged

\* the read stream of entry k emits 'error' while it is piped: it has no
\* 'error' listener, so the event is an uncaught exception, and pipe leaves
\* the write stream open
ReadStreamErrors(k) ==
    /\ ~zip.uncaught
    /\ zip.stream[k] = "piping"
    /\ zip' = [Stream(zip, k, "readFailed") EXCEPT !.uncaught = TRUE]
    /\ UNCHANGED fsOps
    /\ EntriesUnchanged

EntriesNext ==
    \/ \E targetPath \in ExtractTargets, mkdirOk \in BOOLEAN, strict \in ZipFileKinds :
          OpenZip(targetPath, mkdirOk, strict)
    \/ ZipfileEmitsEntry
    \/ ZipfileEmitsEnd
    \/ ZipfileEmitsError
    \/ \E k \in 1..Len(zip.entries), ok \in BOOLEAN : MkdirSettles(k, ok)
    \/ \E k \in 1..Len(zip.entries), ok \in BOOLEAN : OpenReadStreamSettles(k, ok)
    \/ \E k \in 1..Len(zip.entries) : WriteStreamCloses(k)
    \/ \E k \in 1..Len(zip.entries) : WriteStreamErrors(k)
    \/ \E k \in 1..Len(zip.entries) : ReadStreamErrors(k)

SpecEntries == EntriesInit /\ [][EntriesNext]_vars

(***************************************************************************)
(* Properties                                                              *)
(***************************************************************************)
WorkflowReturned == wfPc \in {"Succeeded", "Failed"}

WorkflowStep == CallProcessWorkflow \/ PlanParsed \/ RunFallbackFlow \/ ProcessDirective

\* C1: fail-fast.  Whenever the handler of the k-th directive of the run has
\* returned false, no handler has been invoked for a later directive (the
\* k-th invocation is the run's last) and processWorkflow has returned false.
FailFast ==
    \A k \in 1..Len(outcomes) :
        outcomes[k] = "false" =>
            /\ Len(calls) = k
            /\ WorkflowCalls = {}
            /\ wfPc = "Failed"
            /\ wfResult = "false"

\* C1 witness: the first of three directives failed and the run is over
FailFastWitness ==
    /\ Len(directives) = 3
    /\ outcomes = <<"false">>
    /\ calls[1].handler = "processDownload"
    /\ wfPc = "Failed"

\* C2: within a run the i-th handler invocation is the one of the i-th parsed
\* directive (parsed order, each directive dispatched at most once), at most
\* one handler invocation is awaited at any time, and every invocation but
\* the one awaited has returned its outcome (invocation i+1 starts only after
\* invocation i returned).
InOrderOneAtATime ==
    /\ Len(calls) <= Len(directives)
    /\ \A i \in 1..Len(calls) :
          /\ calls[i].index = i
          /\ calls[i].handler = HandlerFor(directives[i].type)
          /\ calls[i].target = directives[i].target
    /\ Cardinality(WorkflowCalls) <= 1
    /\ Len(calls) = Len(outcomes) + Cardinality(WorkflowCalls)

\* C2 witness: the third directive's handler is awaited, the first two returned
InOrderWitness ==
    /\ Len(calls) = 3
    /\ Len(outcomes) = 2
    /\ calls[1].handler # calls[2].handler
    /\ Cardinality(WorkflowCalls) = 1

\* C3 as claimed: once the run has returned, runFallbackFlow was invoked if
\* and only if the plan could not be read (whatever the read failure) or the
\* parsed sequence is empty.
FallbackIffUnreadableOrEmpty ==
    WorkflowReturned =>
        (fallbackCalls > 0 <=>
            (~(planFile.present /\ planFile.readable) \/ Len(directives) = 0))

\* C3 as amended: runFallbackFlow is invoked only when the plan file is absent
\* (readFile fails with ENOENT) or the parsed sequence is empty, and in those
\* two cases a run that has returned has invoked it exactly once; it is never
\* invoked in a run that parsed a directive, nor after another read failure.
FallbackIffAbsentOrEmpty ==
    LET absent == ~planFile.present
        empty  == planFile.present /\ planFile.readable /\ Len(directives) = 0
    IN  /\ fallbackCalls > 0 => (absent \/ empty) /\ wfPc # "Start"
        /\ WorkflowReturned /\ (absent \/ empty) => fallbackCalls = 1
        /\ Len(directives) > 0 => fallbackCalls = 0
        /\ WorkflowReturned /\ planFile.present /\ ~planFile.readable =>
              fallbackCalls = 0 /\ wfResult = "false"

\* C3 witness: a run over an absent plan has returned through the fallback
FallbackWitness == WorkflowReturned /\ ~planFile.present /\ fallbackCalls = 1

\* C4: with the plan file absent a run invokes no directive handler, returns
\* only through the fallback and then returns true; its steps leave the
\* download history as it was; and from the fallback a run only returns, it
\* never enters the directive loop.
AbsentPlanFallsBack ==
    /\ [](~planFile.present =>
            /\ calls = <<>>
            /\ WorkflowCalls = {}
            /\ wfPc \in {"Idle", "Start", "Fallback", "Succeeded"}
            /\ (wfPc = "Succeeded" => wfResult = "true" /\ fallbackCalls = 1))
    /\ [][~planFile.present /\ WorkflowStep => UNCHANGED downloadHistory]_vars
    /\ [][wfPc = "Fallback" => wfPc' \in {"Fallback", "Succeeded", "Failed"}]_vars

\* C4 witness: the run over an absent plan has returned while the history
\* holds a record
AbsentPlanWitness == ~planFile.present /\ wfPc = "Succeeded" /\ Len(downloadHistory) > 0

\* C5: a run over a non-empty directive sequence that has returned has
\* returned true if and only if every directive's handler returned true, and
\* then each directive's handler was invoked exactly once.
TrueIffAllHandlersTrue ==
    WorkflowReturned /\ Len(directives) > 0 =>
        /\ wfResult = "true" <=>
              /\ Len(outcomes) = Len(directives)
              /\ \A i \in 1..Len(outcomes) : outcomes[i] = "true"
        /\ wfResult = "true" =>
              /\ Len(calls) = Len(directives)
              /\ \A i \in 1..Len(calls) : calls[i].index = i

\* C5 witness: a run of three directives has returned true
TrueWitness == wfPc = "Succeeded" /\ Len(directives) = 3 /\ Len(calls) = 3

\* the list-item grammar, segment by segment
Wellformed(p) == p.number.ok /\ p.gap1.ok /\ p.verb.bold /\ p.gap2.ok /\ p.target.ok

\* the well-formed list items of the plans, by their text
WellformedLines ==
    { [line |-> LineOf(p), verb |-> p.verb.verb, target |-> p.target.trimmed] :
        p \in {q \in AllParts \cup SomeParts : Wellformed(q)} }

\* the readings of a line as a list item whose bold verb is a directive verb
DirectiveReadings(line) ==
    {w \in WellformedLines : w.line = line /\ w.verb \in DirectiveTypes}

\* the indices of the plan's directive lines, and the k-th of them
DirectiveLines(parts) ==
    {i \in 1..Len(parts) : DirectiveReadings(LineOf(parts[i])) # {}}

KthOf(indices, k) ==
    CHOOSE i \in indices : Cardinality({j \in indices : j < i}) = k - 1

\* what the parser returns for each line of the plan taken alone, in line order
RECURSIVE LineByLine(_)
LineByLine(parts) ==
    IF parts = <<>> THEN <<>>
    ELSE ParseContent(<<>>, LineOf(Head(parts))) \o LineByLine(Tail(parts))

\* C6: parsing preserves order.  The sequence returned for a plan is the
\* concatenation, in document order, of what each of its lines yields alone:
\* lines that yield nothing are left out, nothing is reordered, and equal
\* directive lines each yield their own directive.
ParseOrderPreserving ==
    parseCalls > 0 =>
        /\ ~parsed.threw
        /\ parsed.directives = LineByLine(planParts)

\* C6 witness: a plan of three directive lines, the first and the last equal
\* and the middle one different, has been parsed into three directives
ParseOrderWitness ==
    /\ parseCalls > 0
    /\ Len(planParts) = 3
    /\ Len(parsed.directives) = 3
    /\ parsed.directives[1] = parsed.directives[3]
    /\ parsed.directives[1].type # parsed.directives[2].type

\* C7: the parsed sequence holds one directive for each line that reads as a
\* numbered list item whose bold verb is, whatever its letter case, one of
\* download, unzip, validate, implement, and nothing for any other line; the
\* directive's type is the lowercase verb; parsing does not fail.
VerbsCaseInsensitive ==
    parseCalls > 0 =>
        LET lines == DirectiveLines(planParts)
        IN  /\ ~parsed.threw
            /\ Len(parsed.directives) = Cardinality(lines)
            /\ \A k \in 1..Len(parsed.directives) :
                 /\ parsed.directives[k].type \in DirectiveTypes
                 /\ \E w \in DirectiveReadings(LineOf(planParts[KthOf(lines, k)])) :
                      /\ parsed.directives[k].type = w.verb
                      /\ parsed.directives[k].target = w.target

\* C7 witness: a plan whose first line writes its verb with a capital, whose
\* second line is a list item of another verb and whose third is a directive
\* line has been parsed into two directives, the first of the lowercase type
VerbsWitness ==
    /\ parseCalls > 0
    /\ Len(planParts) = 3
    /\ planParts[1].verb.text = "**Validate**"
    /\ planParts[2].verb.verb = "unknown"
    /\ Len(parsed.directives) = 2
    /\ parsed.directives[1].type = "validate"

\* C8: parsing is pure and idempotent.  A call of parseImplementationPlan on
\* a plan already parsed returns the sequence the earlier call returned, and
\* no call changes the download history, the requests in flight or the state
\* of a workflow run.
ParseIdempotent ==
    [][parseCalls' = parseCalls + 1 =>
          /\ (parseCalls > 0 => parsed' = parsed)
          /\ UNCHANGED <<planFile, ledgerVars, wfVars>>]_vars

\* C8 witness: a plan of several directives has been parsed twice by a
\* manager whose history holds a record
ParseTwiceWitness ==
    /\ parseCalls = 2
    /\ Len(parsed.directives) >= 2
    /\ Len(downloadHistory) = 1

\* C9 as claimed: since the last clear, the download history holds one record
\* for each processDownload attempt that was answered by the server, whatever
\* the HTTP status of the answer.
LedgerCountsAnswered == Len(downloadHistory) = answered

\* C9 as amended: since the last clear, the download history holds one record
\* for each processDownload attempt that was answered with HTTP status 200
\* (an attempt answered with another status, refused or timed out adds none),
\* and no step but clearDownloadHistory makes the history shorter.
LedgerCountsAnswered200 ==
    /\ [](Len(downloadHistory) = answered200)
    /\ [][ClearDownloadHistory \/ Len(downloadHistory') >= Len(downloadHistory)]_vars

\* C9 witness: three attempts have settled without a clear, one refused, one
\* answered 404 and one answered 200, and the history holds one record
LedgerWitness ==
    /\ answered = 2
    /\ answered200 = 1
    /\ Len(downloadHistory) = 1
    /\ issued = 3
    /\ inflight = {}

RECURSIVE GlobAccepts(_, _, _, _)
GlobAccepts(pattern, i, path, j) ==
    IF i > Len(pattern) THEN j > Len(path)
    ELSE IF Mid(pattern, i, i + 1) = "**"
    THEN \/ GlobAccepts(pattern, i + 2, path, j)
         \/ j <= Len(path) /\ GlobAccepts(pattern, i, path, j + 1)
    ELSE IF Ch(pattern, i) = "*"
    THEN \/ GlobAccepts(pattern, i + 1, path, j)
         \/ j <= Len(path) /\ Ch(path, j) # "/" /\ GlobAccepts(pattern, i, path, j + 1)
    ELSE IF Ch(pattern, i) = "?"
    THEN j <= Len(path) /\ Ch(path, j) # "/" /\ GlobAccepts(pattern, i + 1, path, j + 1)
    ELSE j <= Len(path) /\ Ch(path, j) = Ch(pattern, i)
            /\ GlobAccepts(pattern, i + 1, path, j + 1)

\* the glob correctness table: pattern, path, expected result
GlobTable ==
    { <<"*.md", "file.md", "true">>, <<"*.md", "file.txt", "false">>,
      <<"docs/*.md", "docs/file.md", "true">>, <<"docs/*.md", "other/file.md", "false">>,
      <<"**/*.md", "file.md", "true">>, <<"**/*.md", "docs/sub/file.md", "true">> }

\* C17: matchesPattern returns what the glob correctness table says: '*.md'
\* accepts 'file.md' and rejects 'file.txt', 'docs/*.md' accepts 'docs/file.md'
\* and rejects 'other/file.md', '**/*.md' accepts 'file.md' and
\* 'docs/sub/file.md'.
GlobTableHolds ==
    globResult # "none" =>
        \A row \in GlobTable :
            globPattern = row[1] /\ globPath = row[2] => globResult = row[3]

\* C18: for a pattern P1 ** P2, a path made of a match of P1, then any string
\* (empty or not, with or without '/'), then a match of P2 is accepted.
DoubleStarAcceptsAnything ==
    globResult # "none" =>
        \A k \in 1..Len(globPattern) :
            Mid(globPattern, k, k + 1) = "**" =>
                \A a \in 0..Len(globPath) : \A b \in a..Len(globPath) :
                    /\ MatchesPattern(Mid(globPath, 1, a), Mid(globPattern, 1, k - 1))
                    /\ MatchesPattern(Mid(globPath, b + 1, Len(globPath)),
                                      Mid(globPattern, k + 2, Len(globPattern)))
                    => globResult = "true"

\* C19: for a pattern without '**', matchesPattern accepts a path exactly when
\* the whole path is covered by the pattern with each '*' standing for zero or
\* more characters other than '/', each '?' for exactly one character other
\* than '/', and every other character, '.' included, for itself.
SingleStarSemantics ==
    globResult # "none" /\ ~Includes(globPattern, "**") =>
        (globResult = "true" <=> GlobAccepts(globPattern, 1, globPath, 1))

\* C19 witness: '*.md' has been tried on a path with a directory and rejected
SingleStarWitness ==
    /\ globPattern = "*.md"
    /\ globPath = "docs/file.md"
    /\ globResult = "false"

\* a directory, if it exists, of regular files and readable directories only
PlainTree(t) ==
    /\ t.exists => t.readable
    /\ \A e \in t.entries : e.readable /\ e.kind \in {"file", "dir"}

\* C20: processValidate returns true if and only if the documentation
\* directory exists and a regular file below it, at any depth, has a relative
\* path the pattern accepts; a missing directory is reported as such, and no
\* match as 'No files found matching pattern'.  (Stated for directories that
\* can be read and hold nothing but regular files and directories.)
ValidateIffFileMatches ==
    lastReturn.handler = "processValidate" /\ PlainTree(tree) =>
        LET matching == {e \in tree.entries :
                           /\ e.kind = "file"
                           /\ GlobAccepts(lastReturn.target, 1, RelativePath(e), 1)}
        IN  /\ lastReturn.returns = "true" <=> tree.exists /\ matching # {}
            /\ ~tree.exists =>
                 lastReturn.error = "Documentation directory 'documentation' does not exist"
            /\ tree.exists /\ matching = {} =>
                 lastReturn.error = "No files found matching pattern: " \o lastReturn.target

(***************************************************************************)
(* processDownload called directly                                         *)
(***************************************************************************)
\* the processDownload call whose return the step records, if any
DownloadReturns(c) ==
    /\ c \in inflight \ inflight'
    /\ c.handler = "processDownload"
    /\ lastReturn'.handler = "processDownload"
    /\ lastReturn'.target = c.target

\* C12: a processDownload attempt that ends with a status other than 200, with
\* no response, or with the 30 s timeout returns false and leaves the ledger as
\* it was; a call that returns true had a 200 response
FailedAttemptLeavesLedger ==
    [][\A c \in inflight :
          DownloadReturns(c) =>
              /\ (~lastReturn'.response.received \/ lastReturn'.response.status # 200) =>
                     /\ lastReturn'.returns = "false"
                     /\ downloadHistory' = downloadHistory
              /\ lastReturn'.returns = "true" =>
                     /\ lastReturn'.response.received
                     /\ lastReturn'.response.status = 200]_vars

\* a second download timed out and left the record of the first alone
TimedOutAfterDownload ==
    /\ lastReturn.handler = "processDownload"
    /\ lastReturn.response = NoResponse("ECONNABORTED")
    /\ lastReturn.returns = "false"
    /\ lastReturn.error = "Download timed out after 30 seconds"
    /\ callerDownloads = 2
    /\ Len(downloadHistory) = 1

\* the 200 responses that carry an expiry message in a JSON body declared as JSON
ExpiryPayloads ==
    { HttpResponse(200, "application/json", ExpiredBody),
      HttpResponse(200, "application/json", LowerExpiredBody) }

\* C14: a 200 response that is not an expiry payload makes processDownload
\* return true and append one record with the url, the whole body, the declared
\* content type and isExpired false as the last element of the ledger
SuccessAppendsRecord ==
    [][\A c \in inflight :
          ( /\ DownloadReturns(c)
            /\ lastReturn'.response.received
            /\ lastReturn'.response.status = 200
            /\ lastReturn'.response \notin ExpiryPayloads ) =>
              /\ lastReturn'.returns = "true"
              /\ downloadHistory' =
                     Append(downloadHistory,
                            [url |-> c.target, data |-> lastReturn'.response.body,
                             contentType |-> lastReturn'.response.contentType,
                             isExpired |-> FALSE, expiryInstructions |-> ""])]_vars

\* a JSON response that does not parse was recorded after an earlier download
UnparseableJsonRecorded ==
    /\ lastReturn.handler = "processDownload"
    /\ lastReturn.returns = "true"
    /\ lastReturn.response = HttpResponse(200, "application/json", InvalidJsonBody)
    /\ Len(downloadHistory) = 2
    /\ downloadHistory[2].data = InvalidJsonBody
    /\ ~downloadHistory[2].isExpired

\* C13: a 200 response declared as JSON whose message contains 'url expired' in
\* any letter case makes processDownload return false and append one record
\* with isExpired true, no data and the instructions of the body; the run that
\* made the download fails at that step and does nothing more, so a ledger
\* that was empty holds that one record
ExpiredDownloadFailsRun ==
    /\ [][\A c \in inflight \ inflight' :
             ( /\ c.by = "workflow"
               /\ c.handler = "processDownload"
               /\ lastReturn'.response \in ExpiryPayloads ) =>
                 /\ lastReturn'.returns = "false"
                 /\ downloadHistory' =
                        Append(downloadHistory,
                               [url |-> c.target, data |-> NullData,
                                contentType |-> "application/json", isExpired |-> TRUE,
                                expiryInstructions |->
                                    IF lastReturn'.response.body = ExpiredBody
                                    THEN "contact support" ELSE ""])
                 /\ outcomes' = Append(outcomes, "false")
                 /\ wfPc' = "Failed"
                 /\ wfResult' = "false"
                 /\ downloadHistory = <<>> => Len(downloadHistory') = 1]_vars
    /\ [][(wfPc = "Failed" /\ runs' = runs) =>
             (calls' = calls /\ downloadHistory' = downloadHistory)]_vars

\* a run of two directives ended at its first, an expired download, with the
\* expiry record alone in the ledger
ExpiredRunStopped ==
    /\ wfPc = "Failed"
    /\ wfResult = "false"
    /\ Len(directives) >= 2
    /\ Len(calls) = 1
    /\ calls[1].handler = "processDownload"
    /\ outcomes = <<"false">>
    /\ Len(downloadHistory) = 1
    /\ downloadHistory[1].isExpired
    /\ downloadHistory[1].data = NullData
    /\ downloadHistory[1].expiryInstructions = "contact support"
    /\ lastReturn.response = HttpResponse(200, "application/json", ExpiredBody)

(***************************************************************************)
(* processUnzip called directly                                            *)
(***************************************************************************)
\* the content types of the ledger's records that name an archive
ArchiveMediaTypes == {"application/zip"}

\* the ledger gives processUnzip nothing to extract
NothingToExtract(history) ==
    \/ history = <<>>
    \/ history[Len(history)].data = NullData
    \/ history[Len(history)].contentType \notin ArchiveMediaTypes

\* C15: processUnzip returns false and makes no directory and writes no file
\* when the ledger is empty, when its latest record has no data, and when the
\* content type of its latest record is not that of an archive
FailedCheckWritesNothing ==
    [][(callerUnzips' = callerUnzips + 1 /\ NothingToExtract(downloadHistory)) =>
          /\ fsOps' = fsOps
          /\ inflight' = inflight
          /\ lastReturn'.handler = "processUnzip"
          /\ lastReturn'.returns = "false"]_vars

\* processUnzip found a JSON document as the latest download and wrote nothing
JsonRefusedWithoutWrites ==
    /\ lastReturn.handler = "processUnzip"
    /\ lastReturn.returns = "false"
    /\ lastReturn.error = "Content type application/json; charset=utf-8 is not a zip file"
    /\ unzipCheck.check = "not a zip"
    /\ callerUnzips = 1
    /\ fsOps = <<>>

\* the index of the last record of history that is not an expiry record, 0 if
\* there is none
LastSuccessful(history) ==
    MaxOf({0} \cup {i \in 1..Len(history) : ~history[i].isExpired})

\* C16 as stated: processUnzip extracts the data of the most recent successful
\* record, also when an expiry record follows it
ExtractsLatestSuccessful ==
    unzipCheck.by # "none" =>
        LET history == unzipCheck.appended
            k       == LastSuccessful(history)
        IN  (k > 0 /\ history[k].contentType \in ArchiveMediaTypes) =>
                /\ unzipCheck.check = "ok"
                /\ Len(unzipCheck.writes) = 2 =>
                       unzipCheck.writes[2].data = history[k].data

\* C16, amended: processUnzip extracts the data of the latest record only; when
\* an expiry record follows a downloaded archive it reports that the latest
\* download has no data and writes nothing
ExtractsLatestRecord ==
    unzipCheck.by # "none" =>
        LET history == unzipCheck.appended
            n       == Len(history)
        IN  /\ unzipCheck.check = "ok" <=>
                   (n > 0 /\ ~history[n].isExpired
                          /\ history[n].contentType \in ArchiveMediaTypes)
            /\ Len(unzipCheck.writes) = 2 =>
                   /\ unzipCheck.writes[2].op = "writeFile"
                   /\ unzipCheck.writes[2].data = history[n].data
            /\ (n > 0 /\ history[n].isExpired) =>
                   /\ unzipCheck.check = "no data"
                   /\ unzipCheck.message = "No data available in latest download"
                   /\ unzipCheck.writes = <<>>

\* processUnzip was called with an expiry record after a downloaded archive
ExpiryAfterArchive ==
    /\ unzipCheck.by = "caller"
    /\ Len(unzipCheck.appended) = 2
    /\ ~unzipCheck.appended[1].isExpired
    /\ unzipCheck.appended[1].contentType = "application/zip"
    /\ unzipCheck.appended[2].isExpired
    /\ unzipCheck.check = "no data"
    /\ unzipCheck.writes = <<>>

MessageFor(history) ==
    IF history = <<>> THEN "No downloads available to unzip"
    ELSE IF history[Len(history)].isExpired THEN "No data available in latest download"
    ELSE IF history[Len(history)].contentType \in ArchiveMediaTypes THEN ""
    ELSE "Content type " \o history[Len(history)].contentType \o " is not a zip file"

ScriptFile ==
    [name \in ScriptNames |->
        IF name = "setup" THEN "docs/scripts/setup.js" ELSE "docs/scripts/build.js"]

\* C22: processImplement looks for docs/scripts/<name>.js; when that file does
\* not exist it returns false, reports that the script was not found and starts
\* no child process; when it exists, node is started on that file
MissingScriptNotRun ==
    [][\A c \in inflight \ inflight' :
          c.handler = "processImplement" =>
              IF ScriptFile[c.target] \in scripts
              THEN /\ Len(spawned') = Len(spawned) + 1
                   /\ spawned'[Len(spawned')].command = "node " \o ScriptFile[c.target]
              ELSE /\ spawned' = spawned
                   /\ lastReturn'.returns = "false"
                   /\ lastReturn'.error =
                          "Script file not found: " \o ScriptFile[c.target]]_vars

\* build was asked for where only setup.js exists, after setup had been run
BuildNotFound ==
    /\ lastReturn.handler = "processImplement"
    /\ lastReturn.target = "build"
    /\ lastReturn.returns = "false"
    /\ lastReturn.error = "Script file not found: docs/scripts/build.js"
    /\ scripts = {"docs/scripts/setup.js"}
    /\ Len(spawned) = 1
    /\ spawned[1].command = "node docs/scripts/setup.js"

\* C23: when the script exists, processImplement returns true if and only if
\* the child process exited with code zero, whatever it wrote to its standard
\* output and standard error
ZeroExitIffTrue ==
    ( /\ lastReturn.handler = "processImplement"
      /\ ScriptFile[lastReturn.target] \in scripts ) =>
        (lastReturn.returns = "true" <=> spawned[Len(spawned)].child.code = "0")

(***************************************************************************)
(* processDirective called directly                                        *)
(***************************************************************************)
\* the four kinds of directive and the handler of each
KnownKinds == {"download", "unzip", "validate", "implement"}

HandlerOfKind ==
    [kind \in KnownKinds |->
        CASE kind = "download" -> "processDownload"
          [] kind = "unzip"    -> "processUnzip"
          [] kind = "validate" -> "processValidate"
          [] OTHER             -> "processImplement"]

\* the directive of the processDirective call the step makes
Given == calls'[Len(calls')].directive

\* C29: processDirective of a directive whose kind is none of the four returns
\* false at once and calls no handler: no call is issued, the ledger, the file
\* system and the child processes are as before
UnknownKindCallsNothing ==
    [][(directiveCalls' = directiveCalls + 1 /\ Given.type \notin KnownKinds) =>
          /\ lastReturn'.returns = "false"
          /\ lastReturn'.handler = "none"
          /\ lastReturn'.error = "Unknown directive type: " \o Given.type
          /\ inflight' = inflight
          /\ issued' = issued
          /\ downloadHistory' = downloadHistory
          /\ fsOps' = fsOps
          /\ unzipCheck' = unzipCheck
          /\ spawned' = spawned]_vars

\* the test's unknown directive was refused after a download had been recorded
UnknownRefused ==
    /\ directiveCalls = 2
    /\ calls[2].directive.type = "unknown"
    /\ lastReturn.returns = "false"
    /\ lastReturn.error = "Unknown directive type: unknown"
    /\ Len(downloadHistory) = 1
    /\ inflight = {}

\* C30: processDirective calls one handler for a directive of a known kind, the
\* handler of that kind, with the directive's target; what that handler returns
\* is what processDirective returns
OneHandlerPerDirective ==
    /\ [][(directiveCalls' = directiveCalls + 1 /\ Given.type \in KnownKinds) =>
             LET c == [id |-> issued + 1, by |-> "caller",
                       handler |-> HandlerOfKind[Given.type], target |-> Given.target]
             IN  /\ Len(calls') = Len(calls) + 1
                 /\ calls'[Len(calls')].handler = c.handler
                 /\ calls'[Len(calls')].target = Given.target
                 /\ \/ inflight' = inflight \cup {c} /\ issued' = issued + 1
                    \/ /\ c.handler = "processUnzip"
                       /\ unzipCheck'.by = "caller"
                       /\ inflight' = inflight
                       /\ lastReturn'.handler = c.handler
                       /\ lastReturn'.returns = "false"]_vars
    /\ [][\A c \in inflight \ inflight' :
             /\ lastReturn'.handler = c.handler
             /\ lastReturn'.target = c.target
             /\ lastReturn'.handler = HandlerOfKind[calls[Len(calls)].directive.type]
             /\ lastReturn'.target = calls[Len(calls)].directive.target]_vars

\* a validate directive followed an implement directive, each with its handler
ValidateAfterImplement ==
    /\ directiveCalls = 2
    /\ calls[1].directive.type = "implement"
    /\ calls[1].handler = "processImplement"
    /\ calls[2].directive.type = "validate"
    /\ calls[2].handler = "processValidate"
    /\ calls[2].target = "*.md"
    /\ lastReturn.handler = "processValidate"
    /\ lastReturn.returns = "true"
    /\ inflight = {}

(***************************************************************************)
(* The exit code of the standalone entry point                             *)
(***************************************************************************)
\* C24: the entry point exits with 0 if and only if processWorkflow returned
\* true, and with 1 when it returned false or when main threw
ExitCodeTellsResult ==
    /\ exitCode \in {"none", "0", "1"}
    /\ exitCode = "0" <=> (exitCode # "none" /\ wfResult = "true")
    /\ exitCode = "1" <=> (exitCode # "none" /\ wfResult \in {"false", "none"})
    /\ (exitCode # "none" /\ runs = 1) => wfPc \in {"Succeeded", "Failed"}

\* the extraction threw, the run caught it and returned false, main exited with 1
ExitedAfterCaughtError ==
    /\ exitCode = "1"
    /\ wfPc = "Failed"
    /\ wfResult = "false"
    /\ wfError = UnzipErrorMessage
    /\ runs = 1

\* C25: a new manager has an empty history, and after clearDownloadHistory the
\* history is empty until the next download; processUnzip called then reports
\* that there are no downloads, and writes nothing
NoRecordsAfterClear ==
    /\ latestBy = "none" => GetDownloadHistory(downloadHistory).items = <<>>
    /\ (unzipCheck.by # "none" /\ unzipCheck.latestBy = "none") =>
           /\ unzipCheck.check = "no downloads"
           /\ unzipCheck.message = "No downloads available to unzip"
           /\ unzipCheck.writes = <<>>

\* two downloads were recorded, the history cleared, and processUnzip called
UnzipAfterClear ==
    /\ callerDownloads = 2
    /\ answered200 = 0
    /\ inflight = {}
    /\ downloadHistory = <<>>
    /\ unzipCheck.by = "caller"
    /\ unzipCheck.latestBy = "none"
    /\ lastReturn.handler = "processUnzip"
    /\ lastReturn.returns = "false"
    /\ lastReturn.error = "No downloads available to unzip"

(***************************************************************************)
(* A run that downloads an archive and extracts it                         *)
(***************************************************************************)
\* the archives, and the paths of their file entries
ValidArchives == {"PK-archive", "PK-flat", "PK-empty"}

FileEntries ==
    [data \in ValidArchives |->
        IF data = "PK-archive" THEN {"docs/guide.md", "README.md"}
        ELSE IF data = "PK-flat" THEN {"README.md"}
        ELSE {}]

\* the paths the file system was asked to write
Written == {fsOps[i].path : i \in 1..Len(fsOps)}

\* C28: the run of the plan '1. **download** https://x/doc.zip',
\* '2. **unzip** out' whose download is answered with 200, a zip media type and
\* a valid archive returns true, and every file entry of the archive is under
\* out/ when it returns
ArchiveExtractedWhenRunReturns ==
    ( /\ wfPc \in {"Succeeded", "Failed"}
      /\ Len(directives) = 2
      /\ Len(downloadHistory) = 1
      /\ downloadHistory[1].url = "https://x/doc.zip"
      /\ downloadHistory[1].contentType = "application/zip"
      /\ downloadHistory[1].data \in ValidArchives
      /\ Len(unzipCheck.writes) = 2 ) =>
        /\ wfResult = "true"
        /\ \A entry \in FileEntries[downloadHistory[1].data] : ("out/" \o entry) \in Written

(***************************************************************************)
(* The tools of the server                                                 *)
(***************************************************************************)
\* the server has answered a request for the tool name
Answered(name) == toolRequest.name = name /\ toolResponse # NoToolResponse

\* C21: when the caller of the validate_patterns tool supplies basePath, the
\* files are searched under basePath: the tool reports success if and only if
\* the search of the directory basePath names finds a file the pattern accepts
BasePathSearched ==
    Answered("validate_patterns") /\ toolRequest.basePath # "" =>
        (toolResponse.text = "Pattern validation successful for: " \o toolRequest.pattern
            <=> ProcessValidate(baseTree, toolRequest.pattern).returns = "true")

\* C26: the process_workflow tool called with planPath processes the plan
\* document at planPath: the directives of the run it answers for are those
\* of that file
PlanPathProcessed ==
    Answered("process_workflow") /\ toolRequest.planPath # "" =>
        directives = ParseContent(<<>>, pathPlan.content)

\* C27: repeated runs are isolated: a run starts with an empty ledger, and an
\* extract_archive call finds no record that a run downloaded (stated while no
\* download_file call has been made, so that every record is a run's)
RunsIsolated ==
    callerDownloads = 0 =>
        /\ wfPc = "Start" => downloadHistory = <<>>
        /\ unzipCheck.by = "caller" => unzipCheck.check = "no downloads"

(***************************************************************************)
(* The raw line and the target of the parsed directives                    *)
(***************************************************************************)
\* the plan line the k-th directive of the plan was parsed from
SourceLine(k) == LineOf(planParts[KthOf(DirectiveLines(planParts), k)])

\* C31: the raw of every directive is the full matched plan line verbatim,
\* trailing whitespace included, and its target is the target of the line
\* with the surrounding whitespace trimmed
RawIsLineVerbatim ==
    parseCalls > 0 =>
        /\ Len(parsed.directives) = Cardinality(DirectiveLines(planParts))
        /\ \A k \in 1..Len(parsed.directives) :
              /\ parsed.directives[k].raw = SourceLine(k)
              /\ \E w \in DirectiveReadings(SourceLine(k)) :
                    parsed.directives[k].target = w.target

\* C38: every directive parseImplementationPlan returns has a non-empty
\* target, also for the list items whose verb is followed by whitespace only
TargetsNonEmpty ==
    parseCalls > 0 =>
        \A k \in 1..Len(parsed.directives) : parsed.directives[k].target # ""

(***************************************************************************)
(* The records of the ledger                                               *)
(***************************************************************************)
\* a record is expired exactly when it has no payload, and only an expired
\* record carries an expiry note
RecordConsistent(record) ==
    /\ record.isExpired <=> record.data = NullData
    /\ record.expiryInstructions # "" => record.isExpired

\* C35: every record processDownload appends is expired if and only if its
\* payload is null and carries an expiry note only when it is expired, and no
\* step changes a record that is in the ledger
RecordsConsistentAndFrozen ==
    [][ /\ \A i \in 1..Len(downloadHistory') : RecordConsistent(downloadHistory'[i])
        /\ \A i \in 1..Len(downloadHistory) :
              i <= Len(downloadHistory') => downloadHistory'[i] = downloadHistory[i]
      ]_vars

\* C35 witness: an expiry record with its note, and an archive appended after it
ArchiveAfterExpiryNote ==
    /\ Len(downloadHistory) = 2
    /\ downloadHistory[1].isExpired
    /\ downloadHistory[1].expiryInstructions # ""
    /\ ~downloadHistory[2].isExpired
    /\ downloadHistory[2].data = "PK-archive"

(***************************************************************************)
(* The order of the records of overlapping fetches                         *)
(***************************************************************************)
\* the position of url in the order of issue
IssuedAt(url) == CHOOSE k \in 1..Len(FetchUrls) : FetchUrls[k] = url

\* C36: records are appended in fetch order for any schedule of fetches: the
\* record of a fetch issued earlier precedes the record of a fetch issued
\* later, and the latest record is that of the most recently issued fetch
\* that appended one
RecordsInFetchOrder ==
    \A i, j \in 1..Len(downloadHistory) :
        i < j => IssuedAt(downloadHistory[i].url) < IssuedAt(downloadHistory[j].url)

(***************************************************************************)
(* The states of a run                                                     *)
(***************************************************************************)
Terminal == {"Succeeded", "Failed"}

\* the transitions of a run; a new call of processWorkflow starts at Start
RunTransitions ==
    { <<"Idle", "Start">>, <<"Succeeded", "Start">>, <<"Failed", "Start">>,
      <<"Start", "Fallback">>, <<"Start", "Running">>, <<"Start", "Failed">>,
      <<"Running", "Succeeded">>, <<"Running", "Failed">>,
      <<"Fallback", "Succeeded">>, <<"Fallback", "Failed">> }

\* C37, as stated: a run reaches its terminal state through Running or
\* through Fallback only, after at most one handler invocation for each
\* directive, and the terminal state tells what the run returned
TerminalThroughRunningOrFallback ==
    /\ Len(calls) <= Len(directives)
    /\ wfPc = "Succeeded" => wfResult = "true"
    /\ wfPc = "Failed" => wfResult = "false"
    /\ wfPc \in Terminal => Len(calls) > 0 \/ fallbackCalls > 0

\* C37, amended: every run whose handler invocations terminate ends in
\* Succeeded, having returned true, or in Failed, having returned false, after
\* at most one handler invocation for each directive; it goes from Start to
\* Fallback, to Running or, when reading the plan fails with an error other
\* than ENOENT, directly to Failed, and from Fallback or Running to a
\* terminal state only
RunEndsInTerminalState ==
    /\ [][wfPc' # wfPc => <<wfPc, wfPc'>> \in RunTransitions]_vars
    /\ [](Len(calls) <= Len(directives))
    /\ [](wfPc = "Succeeded" => wfResult = "true")
    /\ [](wfPc = "Failed" => wfResult = "false")
    /\ (wfPc = "Start" ~> wfPc \in Terminal)

\* C37 witness: a run has failed on a plan that could not be read, without
\* loop and without fallback
FailedFromStart ==
    /\ wfPc = "Failed"
    /\ planFile = PlanUnreadable
    /\ calls = <<>>
    /\ fallbackCalls = 0

(***************************************************************************)
(* The entries of an extraction                                            *)
(***************************************************************************)
\* the entries that have an open read or write stream
OpenStreams == {k \in 1..Len(zip.stream) : zip.stream[k] \in {"opening", "piping"}}

\* the entries the handlers are still working on
EntriesInHand == {k \in 1..Len(zip.stream) : zip.stream[k] \in {"mkdir", "opening", "piping"}}

\* the entries an error has struck
FailedEntries ==
    {k \in 1..Len(zip.stream) :
        zip.stream[k] \in {"openFailed", "readFailed", "writeFailed", "closedAfterError",
                           "mkdirFailed"}}

SettlesWithBoolean ==
    zip # NoZip =>
        /\ zip.promise \in {"pending", "true", "false"}
        /\ zip.uncaught => zip.promise \in {"true", "false"}
====
